---- MODULE Spec2Model ----
(***************************************************************************)
(* Hybrid filesystem of pikpak-webdav-proxy: a local cache directory       *)
(* merged with a remote WebDAV capability (PikpakProxy), the directory     *)
(* listing handle (DirectoryFile) and the remote file handle (remoteFile). *)
(*                                                                         *)
(* A path string is represented by the sequence of its segments, i.e. the  *)
(* string split on "/":  "/" is <<"", "">>, "/a/." is <<"", "a", ".">>,    *)
(* "" is <<"">>.  A store node is the sequence of names below its root.    *)
(***************************************************************************)
EXTENDS Integers, Sequences, FiniteSets, TLC

VARIABLES local, remote, h, pc, call, ret, trace, rsize, mu, thr, hist

\* local, remote: the stores;  h: the open handle;  pc, call, ret, trace: the
\* call in progress.
\* rsize: the size the remote reports for a file now;  mu, thr: the lock of
\* the open remote file and its concurrent callers
\* hist: what the calls on the open directory handle did so far
vars == <<local, remote, h, pc, call, ret, trace, rsize, mu, thr, hist>>

(***************************************************************************)
(* Bounds of the model.                                                    *)
(***************************************************************************)
\* segments after the leading "/" of a path string given to an operation
MaxSegs == 1
\* entries (files and directories below the root) one store holds
MaxEntries == 2

\* entry names, in the byte order os.ReadDir sorts by
NameOrder == <<"a", "b">>
Names == {NameOrder[i] : i \in 1..Len(NameOrder)}

(***************************************************************************)
(* Path strings.                                                           *)
(***************************************************************************)
Root == <<"", "">>

SeqsUpTo(S, n) == UNION {[1..k -> S] : k \in 0..n}

\* does the string start with "/"
IsRooted(p) == Len(p) >= 2 /\ p[1] = ""

Last(s) == s[Len(s)]
Front(s) == SubSeq(s, 1, Len(s) - 1)

\* path.Clean, the loop over the path elements: out is the cleaned prefix
RECURSIVE CleanElems(_, _, _)
CleanElems(elems, out, rooted) ==
    IF elems = <<>> THEN out
    ELSE LET e == Head(elems)
             rest == Tail(elems)
         IN  IF e = "" \/ e = "." THEN CleanElems(rest, out, rooted)
             ELSE IF e = ".."
                  THEN IF out # <<>> /\ Last(out) # ".."
                       THEN CleanElems(rest, Front(out), rooted)
                       ELSE IF rooted THEN CleanElems(rest, out, rooted)
                            ELSE CleanElems(rest, Append(out, ".."), rooted)
                  ELSE CleanElems(rest, Append(out, e), rooted)

\* path.Clean(name)
Clean(p) ==
    LET rooted == IsRooted(p)
        out == CleanElems(IF rooted THEN Tail(p) ELSE p, <<>>, rooted)
    IN  IF rooted
        THEN (IF out = <<>> THEN Root ELSE <<"">> \o out)
        ELSE (IF out = <<>> THEN <<".">> ELSE out)

\* strings.TrimPrefix(s, "/")
TrimSlash(p) == IF IsRooted(p) THEN Tail(p) ELSE p

\* filepath.Join(a, b): the non-empty elements joined by "/" and cleaned
Join(a, b) ==
    LET ea == IF a = <<"">> THEN <<>> ELSE a
        eb == IF b = <<"">> THEN <<>> ELSE b
    IN  IF ea = <<>> /\ eb = <<>> THEN <<"">> ELSE Clean(ea \o eb)

\* the cache directory, opts.LocalPath
CacheRoot == <<"", "cache">>

\* a local path derived from the path string as it came
LocalFilePathRaw(name) == Join(CacheRoot, TrimSlash(name))

\* PikpakProxy.LocalFilePath
LocalFilePath(name) == Join(CacheRoot, TrimSlash(Clean(name)))

IsPrefix(s, t) == Len(s) <= Len(t) /\ SubSeq(t, 1, Len(s)) = s

\* the path strings the protocol server hands over: "/"-rooted, with empty
\* and "." segments among the names
Segs == Names \cup {"", "."}
PathInputs == {<<"">> \o s : s \in SeqsUpTo(Segs, MaxSegs) \ {<<>>}}
\* those already in cleaned form
CleanInputs == {p \in PathInputs : Clean(p) = p}


(***************************************************************************)
(* Errors and metadata.                                                    *)
(***************************************************************************)
\* an error value: its message and the error it wraps (%w), "nil" for none
Err(m) == [msg |-> m, cause |-> "nil"]
Nil == Err("nil")
\* fmt.Errorf("...: %w", inner)
Wrap(m, inner) == [msg |-> m, cause |-> inner.msg]
\* os.IsNotExist
IsNotExist(e) == e.msg \in {"ENOENT", "ErrNotExist"}

\* os.FileInfo: src tells which store produced it.  The stores hold no
\* contents; size is 0 unless the remote reports one (SizedStat below).
Info(nm, dir, src) == [name |-> nm, isDir |-> dir, src |-> src, size |-> 0]
NoInfo == Info("", FALSE, "none")

(***************************************************************************)
(* A store: a function from the existing nodes to "file" or "dir".         *)
(***************************************************************************)
Node == SeqsUpTo(Names, MaxSegs)

KindAt(s, n) == IF n \in DOMAIN s THEN s[n] ELSE "none"
Prefixes(n) == {SubSeq(n, 1, i) : i \in 0..Len(n)}
Ancestors(n) == Prefixes(n) \ {n}
Entries(s) == DOMAIN s \ {<<>>}
Children(s, n) == {m \in DOMAIN s : Len(m) = Len(n) + 1 /\ IsPrefix(n, m)}
Below(s, n) == {m \in DOMAIN s : IsPrefix(n, m)}

WellFormed(s) ==
    \A n \in DOMAIN s :
        IF n = <<>> THEN s[n] = "dir"
        ELSE Front(n) \in DOMAIN s /\ s[Front(n)] = "dir"

Stores ==
    {s \in UNION {[S -> {"file", "dir"}] :
                    S \in {T \in SUBSET Node : Cardinality(T \ {<<>>}) <= MaxEntries}} :
        WellFormed(s)}

\* the stores with entries directly under the root only
FlatStores == {s \in Stores : <<>> \in DOMAIN s /\ \A n \in DOMAIN s : Len(n) <= 1}

\* the error of walking down to n: a file on the way, or a missing component
WalkErr(s, n) ==
    IF \E a \in Ancestors(n) : KindAt(s, a) = "file" THEN Err("ENOTDIR")
    ELSE IF \E a \in Prefixes(n) : KindAt(s, a) = "none" THEN Err("ENOENT")
    ELSE Nil

\* the children of n, sorted by name
SortedChildren(s, n) ==
    LET present == {i \in 1..Len(NameOrder) : Append(n, NameOrder[i]) \in DOMAIN s}
        F[k \in 0..Len(NameOrder)] ==
            IF k = 0 THEN <<>>
            ELSE IF k \in present THEN Append(F[k - 1], Append(n, NameOrder[k]))
                 ELSE F[k - 1]
    IN  F[Len(NameOrder)]

\* the orders in which a set can be listed
Perms(S) == {q \in [1..Cardinality(S) -> S] : \A i, j \in 1..Cardinality(S) : i # j => q[i] # q[j]}

MkdirEffect(s, n) == [m \in DOMAIN s \cup Prefixes(n) |-> IF m \in DOMAIN s THEN s[m] ELSE "dir"]
RemoveEffect(s, n) == [m \in DOMAIN s \ Below(s, n) |-> s[m]]
MoveEffect(s, o, n) ==
    LET moved == {n \o SubSeq(m, Len(o) + 1, Len(m)) : m \in Below(s, o)}
        kept == DOMAIN s \ (Below(s, o) \cup Below(s, n))
    IN  [m \in kept \cup moved |->
            IF m \in moved THEN s[o \o SubSeq(m, Len(n) + 1, Len(m))] ELSE s[m]]
CreateEffect(s, n) == [m \in DOMAIN s \cup {n} |-> IF m = n THEN "file" ELSE s[m]]

(***************************************************************************)
(* The local filesystem (package os) on the cache directory.  lp is an     *)
(* absolute local path; fault is an I/O or permission failure.             *)
(***************************************************************************)
Inside(lp) == IsPrefix(CacheRoot, lp)
Rel(lp) == SubSeq(lp, Len(CacheRoot) + 1, Len(lp))
Base(lp) == Last(lp)

\* os.Stat
OsStat(s, lp, fault) ==
    IF fault THEN [err |-> Err("EACCES"), info |-> NoInfo]
    ELSE IF ~Inside(lp) THEN [err |-> Err("ENOENT"), info |-> NoInfo]
    ELSE IF WalkErr(s, Rel(lp)) # Nil THEN [err |-> WalkErr(s, Rel(lp)), info |-> NoInfo]
    ELSE [err |-> Nil, info |-> Info(Base(lp), s[Rel(lp)] = "dir", "local")]

\* os.ReadDir: the entries sorted by file name
OsReadDir(s, lp, fault) ==
    IF fault THEN [err |-> Err("EACCES"), entries |-> <<>>]
    ELSE IF ~Inside(lp) THEN [err |-> Err("ENOENT"), entries |-> <<>>]
    ELSE IF WalkErr(s, Rel(lp)) # Nil THEN [err |-> WalkErr(s, Rel(lp)), entries |-> <<>>]
    ELSE IF s[Rel(lp)] = "file" THEN [err |-> Err("ENOTDIR"), entries |-> <<>>]
    ELSE LET ch == SortedChildren(s, Rel(lp))
         IN  [err |-> Nil,
              entries |-> [i \in 1..Len(ch) |-> Info(Last(ch[i]), s[ch[i]] = "dir", "local")]]

\* os.MkdirAll
OsMkdirAll(s, lp, fault) ==
    IF fault \/ ~Inside(lp) THEN [err |-> Err("EACCES"), store |-> s]
    ELSE IF \E a \in Prefixes(Rel(lp)) : KindAt(s, a) = "file"
         THEN [err |-> Err("ENOTDIR"), store |-> s]
    ELSE [err |-> Nil, store |-> MkdirEffect(s, Rel(lp))]

\* os.RemoveAll: a missing path is no error
OsRemoveAll(s, lp, fault) ==
    IF fault THEN [err |-> Err("EACCES"), store |-> s]
    ELSE IF ~Inside(lp) THEN [err |-> Nil, store |-> s]
    ELSE IF \E a \in Ancestors(Rel(lp)) : KindAt(s, a) = "file"
         THEN [err |-> Err("ENOTDIR"), store |-> s]
    ELSE [err |-> Nil, store |-> RemoveEffect(s, Rel(lp))]

\* os.Rename: refuses a directory as the new name before the rename itself
OsRename(s, olp, nlp, fault) ==
    LET o == Rel(olp)
        n == Rel(nlp)
        fail(e) == [err |-> Err(e), store |-> s]
    IN  IF fault THEN fail("EACCES")
        ELSE IF ~Inside(olp) \/ ~Inside(nlp) THEN fail("ENOENT")
        ELSE IF WalkErr(s, n) = Nil /\ s[n] = "dir" THEN fail("EEXIST")
        ELSE IF WalkErr(s, o) # Nil THEN fail(WalkErr(s, o).msg)
        ELSE IF o = n THEN [err |-> Nil, store |-> s]
        ELSE IF IsPrefix(o, n) THEN fail("EINVAL")
        ELSE IF WalkErr(s, Front(n)) # Nil THEN fail(WalkErr(s, Front(n)).msg)
        ELSE IF s[Front(n)] = "file" THEN fail("ENOTDIR")
        ELSE IF s[o] = "dir" /\ KindAt(s, n) = "file" THEN fail("ENOTDIR")
        ELSE [err |-> Nil, store |-> MoveEffect(s, o, n)]

(***************************************************************************)
(* Open flags (package os).                                                *)
(***************************************************************************)
O_RDONLY == 0
O_WRONLY == 1
O_CREATE == 64
O_APPEND == 1024

\* the bitwise and of two naturals
RECURSIVE BitAnd(_, _)
BitAnd(a, b) ==
    IF a = 0 \/ b = 0 THEN 0
    ELSE (a % 2) * (b % 2) + 2 * BitAnd(a \div 2, b \div 2)

Flags == {O_RDONLY, O_WRONLY, O_RDONLY + O_APPEND, O_WRONLY + O_CREATE}

AccessMode(flag) == flag % 4
HasCreate(flag) == BitAnd(flag, O_CREATE) # 0

\* os.OpenFile(lp, flag, perm), then f.Stat().IsDir() on the handle
OsOpenFile(s, lp, flag, fault) ==
    LET n == Rel(lp)
        fail(e) == [err |-> Err(e), isDir |-> FALSE, info |-> NoInfo, store |-> s]
    IN  IF fault THEN fail("EACCES")
        ELSE IF ~Inside(lp) THEN fail("ENOENT")
        ELSE IF WalkErr(s, n) = Nil
             THEN IF s[n] = "dir" /\ (AccessMode(flag) # O_RDONLY \/ HasCreate(flag))
                  THEN fail("EISDIR")
                  ELSE [err |-> Nil, isDir |-> s[n] = "dir",
                        info |-> Info(Base(lp), s[n] = "dir", "local"), store |-> s]
        ELSE IF n # <<>> /\ HasCreate(flag) /\ WalkErr(s, Front(n)) = Nil /\ s[Front(n)] = "dir"
             THEN [err |-> Nil, isDir |-> FALSE,
                   info |-> Info(Base(lp), FALSE, "local"), store |-> CreateEffect(s, n)]
        ELSE IF n # <<>> /\ WalkErr(s, Front(n)) = Nil /\ s[Front(n)] = "file"
             THEN fail("ENOTDIR")
        ELSE fail(WalkErr(s, n).msg)

(***************************************************************************)
(* The remote capability (interface Webdav).  It receives the path string  *)
(* as given and resolves it itself; fault is a transport failure; order is *)
(* the order in which the server lists a directory.                        *)
(***************************************************************************)
NodeOf(name) == LET c == Clean(name) IN IF c = Root THEN <<>> ELSE Tail(c)
RemoteName(n) == IF n = <<>> THEN "/" ELSE Last(n)
RemoteInfo(s, n) == Info(RemoteName(n), s[n] = "dir", "remote")

\* Webdav.Stat
RemoteStat(s, name, fault) ==
    IF fault THEN [err |-> Err("REMOTE_FAULT"), info |-> NoInfo]
    ELSE IF NodeOf(name) \notin DOMAIN s THEN [err |-> Err("REMOTE_404"), info |-> NoInfo]
    ELSE [err |-> Nil, info |-> RemoteInfo(s, NodeOf(name))]

\* Webdav.ReadDir
RemoteReadDir(s, name, fault, order) ==
    IF fault THEN [err |-> Err("REMOTE_FAULT"), entries |-> <<>>]
    ELSE IF NodeOf(name) \notin DOMAIN s THEN [err |-> Err("REMOTE_404"), entries |-> <<>>]
    ELSE [err |-> Nil, entries |-> [i \in 1..Len(order) |-> RemoteInfo(s, order[i])]]

\* Webdav.MkdirAll
RemoteMkdirAll(s, name, fault) ==
    IF fault THEN [err |-> Err("REMOTE_FAULT"), store |-> s]
    ELSE IF \E a \in Prefixes(NodeOf(name)) : KindAt(s, a) = "file"
         THEN [err |-> Err("REMOTE_409"), store |-> s]
    ELSE [err |-> Nil, store |-> MkdirEffect(s, NodeOf(name))]

\* a RemoveAll that reports success and removes nothing
RemoteRemoveAllKeeps(s, name, fault) ==
    IF fault THEN [err |-> Err("REMOTE_FAULT"), store |-> s] ELSE [err |-> Nil, store |-> s]

\* Webdav.RemoveAll: a missing path is no error, the root itself stays
RemoteRemoveAll(s, name, fault) ==
    IF fault THEN [err |-> Err("REMOTE_FAULT"), store |-> s]
    ELSE [err |-> Nil,
          store |-> [m \in (DOMAIN s \ Below(s, NodeOf(name))) \cup {<<>>} |-> s[m]]]

\* a Rename that copies: the old path stays
RemoteRenameCopies(s, oldName, newName, fault) ==
    LET o == NodeOf(oldName)
        n == NodeOf(newName)
        fail(e) == [err |-> Err(e), store |-> s]
    IN  IF fault THEN fail("REMOTE_FAULT")
        ELSE IF o \notin DOMAIN s THEN fail("REMOTE_404")
        ELSE IF IsPrefix(o, n) \/ n = <<>> THEN fail("REMOTE_403")
        ELSE IF KindAt(s, Front(n)) # "dir" THEN fail("REMOTE_409")
        ELSE [err |-> Nil,
              store |-> [m \in DOMAIN s \cup DOMAIN MoveEffect(s, o, n) |->
                            IF m \in DOMAIN s THEN s[m] ELSE MoveEffect(s, o, n)[m]]]

\* Webdav.Rename(old, new, overwrite = true)
RemoteRename(s, oldName, newName, fault) ==
    LET o == NodeOf(oldName)
        n == NodeOf(newName)
        fail(e) == [err |-> Err(e), store |-> s]
    IN  IF fault THEN fail("REMOTE_FAULT")
        ELSE IF o \notin DOMAIN s THEN fail("REMOTE_404")
        ELSE IF IsPrefix(o, n) \/ n = <<>> THEN fail("REMOTE_403")
        ELSE IF KindAt(s, Front(n)) # "dir" THEN fail("REMOTE_409")
        ELSE [err |-> Nil, store |-> MoveEffect(s, o, n)]

(***************************************************************************)
(* Open handles (webdav.File).  One record shape serves the three kinds:   *)
(* "os" an *os.File, "dir" a DirectoryFile, "remote" a remoteFile.         *)
(* FilesNil tells whether the slice Files is nil.                          *)
(***************************************************************************)
NoHandle ==
    [kind |-> "none", Name |-> <<>>, FileInfo |-> NoInfo, Files |-> <<>>,
     FilesNil |-> TRUE, FileIndex |-> 0, IsDir |-> FALSE, Offset |-> 0, Size |-> 0]
OsFile(lp, info) == [NoHandle EXCEPT !.kind = "os", !.Name = lp, !.FileInfo = info]
DirectoryFile(name, info) ==
    [NoHandle EXCEPT !.kind = "dir", !.Name = name, !.FileInfo = info, !.IsDir = TRUE]

\* one call to an underlying capability, as the proxy made it
T(side, op, arg, err) == [side |-> side, op |-> op, arg |-> arg, err |-> err]

\* utils.NewRemoteFile, given the answer st of client.Stat(filepath)
RemoteFileOf(name, st) ==
    [err |-> st.err,
     file |-> IF st.err # Nil THEN NoHandle
              ELSE [NoHandle EXCEPT !.kind = "remote", !.Name = name,
                                    !.Offset = 0, !.Size = st.info.size,
                                    !.FileInfo = st.info, !.IsDir = st.info.isDir],
     trace |-> <<T("remote", "Stat", name, st.err)>>]

\* utils.NewRemoteFile on the store rem
NewRemoteFile(rem, name, rf) == RemoteFileOf(name, RemoteStat(rem, name, rf))

(***************************************************************************)
(* PikpakProxy.                                                            *)
(***************************************************************************)
\* a Stat that returns the local metadata without looking at the local error
StatUsesLocalAnyErr(lerr, name) == name # Root

\* a Stat that always asks the remote
StatUsesLocalNever(lerr, name) == FALSE

\* Stat: the condition under which the local metadata is returned
StatUsesLocal(lerr, name) == lerr = Nil /\ name # Root

\* PikpakProxy.Stat
ProxyStat(loc, rem, name, lf, rf) ==
    LET lp == LocalFilePath(name)
        ls == OsStat(loc, lp, lf)
        rs == RemoteStat(rem, name, rf)
    IN  IF StatUsesLocal(ls.err, name)
        THEN [err |-> Nil, info |-> ls.info, trace |-> <<T("local", "Stat", lp, ls.err)>>]
        ELSE [err |-> rs.err, info |-> rs.info,
              trace |-> <<T("local", "Stat", lp, ls.err), T("remote", "Stat", name, rs.err)>>]

\* a Readdir that goes on after every local listing error
ReaddirLocalFatalNever(lerr) == FALSE

\* Readdir: a local listing error that ends the call
ReaddirLocalFatal(lerr) == lerr # Nil /\ ~IsNotExist(lerr)

\* Readdir: the loop over the local entries; those whose Info() fails are skipped
LocalInfos(entries, infoFail) == SelectSeq(entries, LAMBDA f : f.name \notin infoFail)

\* a Readdir that appends every remote entry
KeepsRemoteAlways(localNames, f) == TRUE

\* Readdir: is the remote entry f appended, given the names recorded for local entries
KeepsRemote(localNames, f) == f.name \notin localNames

\* Readdir: the loop over the remote entries
RemoteOnly(localNames, entries) == SelectSeq(entries, LAMBDA f : KeepsRemote(localNames, f))

\* a Readdir that gives up the local entries when the remote listing fails
MergeRemoteOrNothing(localResult, remoteErr, remoteEntries) ==
    IF remoteErr # Nil THEN <<>>
    ELSE localResult \o
         SelectSeq(remoteEntries,
                   LAMBDA f : \A i \in 1..Len(localResult) : localResult[i].name # f.name)

\* Readdir: the result once both listings have been attempted
Merge(localResult, remoteErr, remoteEntries) ==
    IF remoteErr # Nil THEN localResult
    ELSE localResult \o
         RemoteOnly({localResult[i].name : i \in 1..Len(localResult)}, remoteEntries)

\* PikpakProxy.Readdir
ProxyReaddir(loc, rem, name, lf, rf, order, infoFail) ==
    LET lp == LocalFilePath(name)
        l == OsReadDir(loc, lp, lf)
        r == RemoteReadDir(rem, name, rf, order)
    IN  IF ReaddirLocalFatal(l.err)
        THEN [err |-> l.err, list |-> <<>>, trace |-> <<T("local", "ReadDir", lp, l.err)>>]
        ELSE [err |-> Nil,
              list |-> Merge(LocalInfos(l.entries, infoFail), r.err, r.entries),
              trace |-> <<T("local", "ReadDir", lp, l.err),
                          T("remote", "ReadDir", name, r.err)>>]

\* OpenFile: the test that sends a failed local open to the remote file
OpenIsReadIntent(flag) == BitAnd(flag, O_RDONLY) # 0 \/ flag = 0

\* an OpenFile that hands out the raw local handle for a directory too
LocalHandleRaw(name, lp, lo) == OsFile(lp, lo.info)

\* OpenFile: the handle returned when the local open succeeded
LocalHandle(name, lp, lo) ==
    IF lo.isDir THEN DirectoryFile(name, lo.info) ELSE OsFile(lp, lo.info)

\* an OpenFile that asks the remote for the path whatever the local open did
ProxyOpenFileProbes(loc, rem, name, flag, lf, rf) ==
    LET lp == LocalFilePath(name)
        lo == OsOpenFile(loc, lp, flag, lf)
        nf == NewRemoteFile(rem, name, rf)
        lt == T("local", "OpenFile", lp, lo.err)
    IN  IF lo.err = Nil
        THEN [err |-> Nil, file |-> LocalHandle(name, lp, lo),
              local |-> lo.store, trace |-> <<lt>> \o nf.trace]
        ELSE [err |-> nf.err, file |-> nf.file, local |-> lo.store,
              trace |-> <<lt>> \o nf.trace]

\* PikpakProxy.OpenFile
ProxyOpenFile(loc, rem, name, flag, lf, rf) ==
    LET lp == LocalFilePath(name)
        lo == OsOpenFile(loc, lp, flag, lf)
        nf == NewRemoteFile(rem, name, rf)
        lt == T("local", "OpenFile", lp, lo.err)
    IN  IF lo.err = Nil
        THEN [err |-> Nil,
              file |-> LocalHandle(name, lp, lo),
              local |-> lo.store, trace |-> <<lt>>]
        ELSE IF OpenIsReadIntent(flag)
             THEN [err |-> nf.err, file |-> nf.file, local |-> lo.store,
                   trace |-> <<lt>> \o nf.trace]
        ELSE [err |-> Err("ErrNotExist"), file |-> NoHandle, local |-> lo.store,
              trace |-> <<lt>>]

\* a dual write that fails as soon as one side fails
DualWriteFailsEither(lerr, rerr) == lerr # Nil \/ rerr # Nil

\* Mkdir, RemoveAll, Rename: the condition under which the call fails
DualWriteFails(lerr, rerr) == lerr # Nil /\ rerr # Nil

\* a combined failure that wraps the remote error
CombinedFailureRemote(msg, lerr, rerr) == Wrap(msg, rerr)

\* Mkdir, RemoveAll, Rename: the error returned when both sides failed
CombinedFailure(msg, lerr, rerr) == Wrap(msg, lerr)

\* a dual write that returns on a local failure before calling the remote
DualWriteShortCircuit(op, msg, l, r, larg, rarg) ==
    IF l.err # Nil
    THEN [err |-> Wrap(msg, l.err), local |-> l.store, remote |-> r.store,
          trace |-> <<T("local", op, larg, l.err)>>]
    ELSE [err |-> Nil, local |-> l.store, remote |-> r.store,
          trace |-> <<T("local", op, larg, l.err), T("remote", op, rarg, r.err)>>]

\* the result of a dual write from the outcomes l and r of its two sides
DualWrite(op, msg, l, r, larg, rarg) ==
    [err |-> IF DualWriteFails(l.err, r.err) THEN CombinedFailure(msg, l.err, r.err) ELSE Nil,
     local |-> l.store, remote |-> r.store,
     trace |-> <<T("local", op, larg, l.err), T("remote", op, rarg, r.err)>>]

\* PikpakProxy.Mkdir
ProxyMkdir(loc, rem, name, lf, rf) ==
    DualWrite("MkdirAll", "failed to create local and remote directories",
              OsMkdirAll(loc, LocalFilePath(name), lf), RemoteMkdirAll(rem, name, rf),
              LocalFilePath(name), name)

\* PikpakProxy.RemoveAll
ProxyRemoveAll(loc, rem, name, lf, rf) ==
    DualWrite("RemoveAll", "failed to remove local and remote files",
              OsRemoveAll(loc, LocalFilePath(name), lf), RemoteRemoveAll(rem, name, rf),
              LocalFilePath(name), name)

\* PikpakProxy.Rename
ProxyRename(loc, rem, oldName, newName, lf, rf) ==
    DualWrite("Rename", "failed to rename local and remote files",
              OsRename(loc, LocalFilePath(oldName), LocalFilePath(newName), lf),
              RemoteRename(rem, oldName, newName, rf),
              LocalFilePath(oldName), oldName)

(***************************************************************************)
(* DirectoryFile.                                                          *)
(***************************************************************************)
Min(a, b) == IF a < b THEN a ELSE b
\* a batch that starts at the head of the sequence whatever the cursor
SliceWhole(s, from, to) == SubSeq(s, 1, to)
\* s[from:to]
Slice(s, from, to) == SubSeq(s, from + 1, to)

\* a Readdir that takes what a failed lister returned as the listing
ListerFailedNever(err) == FALSE

\* DirectoryFile.Readdir: the lister returned an error
ListerFailed(err) == err # Nil

\* a Readdir that never reports the end of the listing
AtListEndNever(end, len) == FALSE

\* DirectoryFile.Readdir: the batch ending at end reached the end of the
\* len cached entries
AtListEnd(end, len) == end >= len

\* a Readdir that leaves the cursor where it is
BatchEndStuck(index, count, len) == index

\* DirectoryFile.Readdir: the end of a batch of count entries from index in
\* a listing of len entries
BatchEnd(index, count, len) == Min(index + count, len)

\* DirectoryFile.Readdir on the handle d; rd is what d.Proxy.Readdir returns
\* if it is called
DirFileReaddir(d, count, rd) ==
    LET fetch == d.FilesNil
        d1 == IF fetch
              THEN [d EXCEPT !.Files = rd.list, !.FilesNil = (rd.list = <<>>), !.FileIndex = 0]
              ELSE d
        end == BatchEnd(d1.FileIndex, count, Len(d1.Files))
        tr == IF fetch THEN <<T("proxy", "Readdir", d.Name, rd.err)>> \o rd.trace ELSE <<>>
    IN  IF fetch /\ ListerFailed(rd.err)
        THEN [err |-> rd.err, list |-> <<>>, file |-> d, trace |-> tr]
        ELSE IF count <= 0
        THEN [err |-> Nil, list |-> Slice(d1.Files, d1.FileIndex, Len(d1.Files)),
              file |-> [d1 EXCEPT !.FileIndex = Len(d1.Files)], trace |-> tr]
        ELSE [err |-> IF AtListEnd(end, Len(d1.Files)) THEN Err("EOF") ELSE Nil,
              list |-> Slice(d1.Files, d1.FileIndex, end),
              file |-> [d1 EXCEPT !.FileIndex = end], trace |-> tr]

\* DirectoryFile.Read
DirFileRead(d, len) == [n |-> 0, err |-> Err("ErrInvalid"), file |-> d]

\* a Seek that rewinds the listing
DirFileSeekRewinds(d, offset, whence) ==
    [n |-> 0, err |-> Nil, file |-> [d EXCEPT !.FileIndex = 0]]

\* DirectoryFile.Seek
DirFileSeek(d, offset, whence) == [n |-> 0, err |-> Err("ErrInvalid"), file |-> d]

\* DirectoryFile.Write
DirFileWrite(d, len) == [n |-> 0, err |-> Err("ErrInvalid"), file |-> d]

(***************************************************************************)
(* remoteFile (pkg/utils/remotefile.go).  Offset and Size are int64: the   *)
(* model keeps two's-complement arithmetic at a width of IntBits bits.     *)
(***************************************************************************)
IntBits == 4
MinInt == -(2 ^ (IntBits - 1))
MaxInt == 2 ^ (IntBits - 1) - 1
\* the int64 value of the integer x
WrapInt(x) == ((x - MinInt) % (2 ^ IntBits)) + MinInt
\* a + b on int64
AddInt(a, b) == WrapInt(a + b)

\* io.SeekStart, io.SeekCurrent, io.SeekEnd
SeekStart == 0
SeekCurrent == 1
SeekEnd == 2

ErrInvalid == Err("ErrInvalid")
EOF == Err("EOF")
ErrWriteNotEnabled == Err("write to remote file not enabled")

\* what Webdav.Stat answers once the remote reports the size sz for a file;
\* a collection has size 0
SizedStat(st, sz) ==
    IF st.err = Nil /\ ~st.info.isDir THEN [st EXCEPT !.info.size = sz] ELSE st

\* a Read that fetches at the very end of the file too
AtEndBeyondOnly(offset, size) == offset > size

\* Read: has the offset reached the end of the file
AtEnd(offset, size) == offset >= size

\* a Read that asks for a whole buffer whatever is left of the file
ReadLengthWhole(len, size, offset) == len

\* Read: toRead
ReadLength(len, size, offset) == Min(len, size - offset)

\* a Read that goes on to the stream after a failed fetch
FetchFailedNever(err) == FALSE

\* Read: did ReadStreamRange fail
FetchFailed(err) == err # Nil

\* a Read that forgets to move the offset
AdvanceNone(d, n) == d

\* Read: the offset moves by the n bytes read
Advance(d, n) == IF n > 0 THEN [d EXCEPT !.Offset = AddInt(@, n)] ELSE d

\* remoteFile.Read into a buffer of len bytes.  fetch is the outcome of the
\* ranged fetch: err is the error of ReadStreamRange; the one Read of the
\* returned stream delivers at most avail bytes and returns the error serr.
RemoteFileRead(d, len, fetch) ==
    IF d.IsDir THEN [n |-> 0, err |-> ErrInvalid, file |-> d, trace |-> <<>>]
    ELSE IF AtEnd(d.Offset, d.Size) THEN [n |-> 0, err |-> EOF, file |-> d, trace |-> <<>>]
    ELSE LET toRead == ReadLength(len, d.Size, d.Offset)
             range == T("remote", "ReadStreamRange", <<d.Name, d.Offset, toRead>>, fetch.err)
             readLen == Min(toRead, len)
             n == Min(fetch.avail, readLen)
         IN  IF FetchFailed(fetch.err)
             THEN [n |-> 0, err |-> fetch.err, file |-> d, trace |-> <<range>>]
             ELSE [n |-> n, err |-> fetch.serr, file |-> Advance(d, n),
                   trace |-> <<range, T("stream", "Read", readLen, fetch.serr),
                               T("stream", "Close", 0, Nil)>>]

\* a Seek that accepts every candidate offset
SeekRejectsNever(newOffset) == FALSE

\* Seek: the candidate offset is refused
SeekRejects(newOffset) == newOffset < 0

\* a Seek that does not clamp
ClampNone(newOffset, size) == newOffset

\* Seek: a candidate beyond the end is clamped to the size
Clamp(newOffset, size) == IF newOffset > size THEN size ELSE newOffset

\* remoteFile.Seek
RemoteFileSeek(d, offset, whence) ==
    LET newOffset == IF whence = SeekStart THEN offset
                     ELSE IF whence = SeekCurrent THEN AddInt(d.Offset, offset)
                     ELSE AddInt(d.Size, offset)
        fail == [n |-> 0, err |-> ErrInvalid, file |-> d]
    IN  IF d.IsDir THEN fail
        ELSE IF whence \notin {SeekStart, SeekCurrent, SeekEnd} THEN fail
        ELSE IF SeekRejects(newOffset) THEN fail
        ELSE [n |-> Clamp(newOffset, d.Size), err |-> Nil,
              file |-> [d EXCEPT !.Offset = Clamp(newOffset, d.Size)]]

\* a Write that takes the bytes
RemoteFileWriteAccepts(d, len) == [n |-> len, err |-> Nil, file |-> [d EXCEPT !.Size = len]]

\* remoteFile.Write of a buffer of len bytes
RemoteFileWrite(d, len) == [n |-> 0, err |-> ErrWriteNotEnabled, file |-> d]

\* a Stat that asks the remote again
RemoteFileStatFresh(d, st) ==
    [info |-> st.info, err |-> st.err, trace |-> <<T("remote", "Stat", d.Name, st.err)>>]

\* remoteFile.Stat; st is what f.Client.Stat(f.Filepath) would answer now,
\* which Stat does not ask for
RemoteFileStat(d, st) == [info |-> d.FileInfo, err |-> Nil, trace |-> <<>>]

\* a Readdir that returns the whole listing whatever the count
TruncatesNever(n, count) == FALSE

\* remoteFile.Readdir: a listing of n entries is cut down to count entries
Truncates(n, count) == n > count

\* remoteFile.Readdir; rd is what f.Client.ReadDir(f.Filepath) answers if called
RemoteFileReaddir(d, count, rd) ==
    IF ~d.IsDir THEN [list |-> <<>>, err |-> ErrInvalid, trace |-> <<>>]
    ELSE LET tr == <<T("remote", "ReadDir", d.Name, rd.err)>>
         IN  IF rd.err # Nil THEN [list |-> <<>>, err |-> rd.err, trace |-> tr]
             ELSE IF count <= 0 THEN [list |-> rd.entries, err |-> Nil, trace |-> tr]
             ELSE IF Truncates(Len(rd.entries), count)
                  THEN [list |-> Slice(rd.entries, 0, count), err |-> Nil, trace |-> tr]
             ELSE [list |-> rd.entries, err |-> Nil, trace |-> tr]

(***************************************************************************)
(* The state machine.  The protocol server makes one call at a time: a     *)
(* call runs to completion (pc = "returned": call, ret and trace describe  *)
(* it) and the server then takes the result (Return).  While a handle is   *)
(* open, h is that handle.                                                 *)
(***************************************************************************)
Counts == -1..MaxEntries

NoCall ==
    [op |-> "none", name |-> <<>>, name2 |-> <<>>, flag |-> 0, count |-> 0,
     lf |-> FALSE, rf |-> FALSE, order |-> <<>>, infoFail |-> {},
     local |-> <<>>, remote |-> <<>>, h |-> NoHandle,
     len |-> 0, avail |-> 0, serr |-> Nil, delta |-> 0, whence |-> 0, rsize |-> 0]
NoRet ==
    [err |-> Nil, info |-> NoInfo, list |-> <<>>, file |-> NoHandle, n |-> 0, path |-> <<>>]

\* the record of the calls on one directory handle: calls counts the Readdir
\* calls and fetches those that invoked the lister (both up to 2), ok tells
\* that no call failed, loaded that the lister succeeded once, first is the
\* first listing fetched, got the batches returned, one after the other
NoHist ==
    [calls |-> 0, fetches |-> 0, ok |-> TRUE, loaded |-> FALSE, first |-> <<>>, got |-> <<>>]

\* the call record: the operation, its arguments, the outcomes the environment
\* chose, and the state the call started in
Called(op) ==
    [NoCall EXCEPT !.op = op, !.local = local, !.remote = remote, !.h = h, !.rsize = rsize]

InBounds(s) == DOMAIN s \subseteq Node /\ Cardinality(Entries(s)) <= MaxEntries

\* the orders in which the remote server may list the directory name
Orders(rem, name) == Perms(Children(rem, NodeOf(name)))
\* the sets of local entries of name whose Info() may fail
InfoFails(loc, name) ==
    SUBSET {e.name : e \in {OsReadDir(loc, LocalFilePath(name), FALSE).entries[i] :
                i \in 1..Len(OsReadDir(loc, LocalFilePath(name), FALSE).entries)}}

Init ==
    /\ local \in {s \in Stores : <<>> \in DOMAIN s}
    /\ remote \in {s \in Stores : <<>> \in DOMAIN s}
    /\ h = NoHandle
    /\ pc = "idle"
    /\ call = NoCall
    /\ ret = NoRet
    /\ trace = <<>>
    /\ rsize = 0 /\ mu = 0 /\ thr = <<>> /\ hist = NoHist

Stat(name, lf, rf) ==
    /\ pc = "idle" /\ h.kind = "none"
    /\ LET r == ProxyStat(local, remote, name, lf, rf)
       IN  /\ ret' = [NoRet EXCEPT !.err = r.err, !.info = r.info]
           /\ trace' = r.trace
    /\ call' = [Called("Stat") EXCEPT !.name = name, !.lf = lf, !.rf = rf]
    /\ pc' = "returned"
    /\ UNCHANGED <<local, remote, h>>

Readdir(name, lf, rf, order, infoFail) ==
    /\ pc = "idle" /\ h.kind = "none"
    /\ LET r == ProxyReaddir(local, remote, name, lf, rf, order, infoFail)
       IN  /\ ret' = [NoRet EXCEPT !.err = r.err, !.list = r.list]
           /\ trace' = r.trace
    /\ call' = [Called("Readdir") EXCEPT !.name = name, !.lf = lf, !.rf = rf,
                                         !.order = order, !.infoFail = infoFail]
    /\ pc' = "returned"
    /\ UNCHANGED <<local, remote, h>>

OpenFile(name, flag, lf, rf) ==
    /\ pc = "idle" /\ h.kind = "none"
    /\ LET r == ProxyOpenFile(local, remote, name, flag, lf, rf)
       IN  /\ InBounds(r.local)
           /\ ret' = [NoRet EXCEPT !.err = r.err, !.file = r.file]
           /\ trace' = r.trace
           /\ local' = r.local
           /\ h' = r.file
    /\ call' = [Called("OpenFile") EXCEPT !.name = name, !.flag = flag, !.lf = lf, !.rf = rf]
    /\ pc' = "returned"
    /\ UNCHANGED remote

\* the common part of the three dual-write operations
Mutate(op, r, name, name2, lf, rf) ==
    /\ pc = "idle" /\ h.kind = "none"
    /\ InBounds(r.local) /\ InBounds(r.remote)
    /\ ret' = [NoRet EXCEPT !.err = r.err]
    /\ trace' = r.trace
    /\ local' = r.local
    /\ remote' = r.remote
    /\ call' = [Called(op) EXCEPT !.name = name, !.name2 = name2, !.lf = lf, !.rf = rf]
    /\ pc' = "returned"
    /\ UNCHANGED h

Mkdir(name, lf, rf) ==
    Mutate("Mkdir", ProxyMkdir(local, remote, name, lf, rf), name, <<>>, lf, rf)

RemoveAll(name, lf, rf) ==
    Mutate("RemoveAll", ProxyRemoveAll(local, remote, name, lf, rf), name, <<>>, lf, rf)

Rename(oldName, newName, lf, rf) ==
    Mutate("Rename", ProxyRename(local, remote, oldName, newName, lf, rf),
           oldName, newName, lf, rf)

\* Readdir on an open DirectoryFile
DirReaddir(count, lf, rf, order, infoFail) ==
    /\ pc = "idle" /\ h.kind = "dir"
    /\ LET r == DirFileReaddir(h, count,
                    ProxyReaddir(local, remote, h.Name, lf, rf, order, infoFail))
       IN  /\ ret' = [NoRet EXCEPT !.err = r.err, !.list = r.list]
           /\ trace' = r.trace
           /\ h' = r.file
    /\ call' = [Called("DirReaddir") EXCEPT !.name = h.Name, !.count = count, !.lf = lf,
                                            !.rf = rf, !.order = order, !.infoFail = infoFail]
    /\ pc' = "returned"
    /\ UNCHANGED <<local, remote>>

\* Close on any open handle
Close ==
    /\ pc = "idle" /\ h.kind # "none"
    /\ h' = NoHandle
    /\ ret' = NoRet
    /\ trace' = <<>>
    /\ call' = Called("Close")
    /\ pc' = "returned"
    /\ UNCHANGED <<local, remote>>

\* the protocol server takes the result of the call
Return ==
    /\ pc = "returned"
    /\ pc' = "idle"
    /\ call' = NoCall
    /\ ret' = NoRet
    /\ trace' = <<>>
    /\ UNCHANGED <<local, remote, h>>

\* the calls made while no handle is open.  Only Stat looks at the spelling
\* of the path, so the other calls are made with cleaned paths.  lf is a
\* local I/O failure, rf a remote transport failure.  They are drawn for
\* Stat of a cleaned path, Readdir, Mkdir and RemoveAll; OpenFile fails
\* locally, and Rename on both sides, on missing paths alone, and OpenFile
\* meets a remote failure only with a flag that lets it go to the remote.
\* For Readdir the outcomes of the steps a failure cuts off are not drawn:
\* a local I/O failure ends the listing, and a failed remote listing has no
\* order.
FsCall ==
    \/ \E name \in CleanInputs, lf, rf \in BOOLEAN : Stat(name, lf, rf)
    \/ \E name \in PathInputs \ CleanInputs : Stat(name, FALSE, FALSE)
    \/ \E name \in CleanInputs :
         \/ \E order \in Orders(remote, name), infoFail \in InfoFails(local, name) :
               Readdir(name, FALSE, FALSE, order, infoFail)
         \/ \E infoFail \in InfoFails(local, name) : Readdir(name, FALSE, TRUE, <<>>, infoFail)
         \/ Readdir(name, TRUE, FALSE, <<>>, {})
    \/ \E name \in CleanInputs, flag \in Flags :
         \E rf \in IF OpenIsReadIntent(flag) THEN BOOLEAN ELSE {FALSE} :
            OpenFile(name, flag, FALSE, rf)
    \/ \E name \in CleanInputs, lf, rf \in BOOLEAN : Mkdir(name, lf, rf)
    \/ \E name \in CleanInputs, lf, rf \in BOOLEAN : RemoveAll(name, lf, rf)
    \/ \E oldName, newName \in CleanInputs : Rename(oldName, newName, FALSE, FALSE)

\* the calls made on the open handle; the listing is fetched only while
\* Files is nil, with the outcomes of Readdir above but for Info() failures
HandleCall ==
    \/ /\ h.FilesNil
       /\ \E count \in Counts :
            \/ \E order \in Orders(remote, h.Name) :
                  DirReaddir(count, FALSE, FALSE, order, {})
            \/ DirReaddir(count, FALSE, TRUE, <<>>, {})
            \/ DirReaddir(count, TRUE, FALSE, <<>>, {})
    \/ /\ ~h.FilesNil
       /\ \E count \in Counts : DirReaddir(count, FALSE, FALSE, <<>>, {})
    \/ Close

Next ==
    \/ pc = "idle" /\ h.kind = "none" /\ FsCall /\ UNCHANGED <<rsize, mu, thr, hist>>
    \/ pc = "idle" /\ h.kind # "none" /\ HandleCall /\ UNCHANGED <<rsize, mu, thr, hist>>
    \/ Return /\ UNCHANGED <<rsize, mu, thr, hist>>

Spec == Init /\ [][Next]_vars

(***************************************************************************)
(* The remote file handle on its own: one caller opens the remote path     *)
(* FilePath or the remote root (NewRemoteFile) and calls the methods of    *)
(* the handle one at a time, while the remote may change the file.         *)
(***************************************************************************)
\* size of a remote file
MaxSize == 3
\* length of a buffer given to Read or Write
MaxLen == 3

FilePath == <<"", "a">>
Lens == 0..MaxLen
Deltas == MinInt..MaxInt
Whences == {SeekStart, SeekCurrent, SeekEnd, 3}
StreamErrs == {Nil, EOF, Err("STREAM_FAULT")}

\* what the remote answers to Stat(FilePath) now
StatNow(rf) == SizedStat(RemoteStat(remote, FilePath, rf), rsize)

FileInit ==
    /\ local = [n \in {<<>>} |-> "dir"]
    /\ remote \in {s \in FlatStores : NodeOf(FilePath) \in DOMAIN s}
    /\ rsize \in 0..MaxSize
    /\ h = NoHandle
    /\ pc = "idle"
    /\ call = NoCall
    /\ ret = NoRet
    /\ trace = <<>>
    /\ mu = 0 /\ thr = <<>> /\ hist = NoHist

OpenRemoteFile(rf) ==
    /\ pc = "idle" /\ h.kind = "none"
    /\ LET r == RemoteFileOf(FilePath, StatNow(rf))
       IN  /\ h' = r.file
           /\ ret' = [NoRet EXCEPT !.err = r.err, !.file = r.file]
           /\ trace' = r.trace
    /\ call' = [Called("OpenRemoteFile") EXCEPT !.name = FilePath, !.rf = rf]
    /\ pc' = "returned"
    /\ UNCHANGED <<local, remote>>

\* NewRemoteFile on the root of the remote
OpenRemoteDir(rf) ==
    /\ pc = "idle" /\ h.kind = "none"
    /\ LET r == NewRemoteFile(remote, Root, rf)
       IN  /\ h' = r.file
           /\ ret' = [NoRet EXCEPT !.err = r.err, !.file = r.file]
           /\ trace' = r.trace
    /\ call' = [Called("OpenRemoteDir") EXCEPT !.name = Root, !.rf = rf]
    /\ pc' = "returned"
    /\ UNCHANGED <<local, remote>>

Read(len, ferr, avail, serr) ==
    /\ pc = "idle" /\ h.kind = "remote"
    /\ LET r == RemoteFileRead(h, len, [err |-> ferr, avail |-> avail, serr |-> serr])
       IN  /\ h' = r.file
           /\ ret' = [NoRet EXCEPT !.err = r.err, !.n = r.n]
           /\ trace' = r.trace
    /\ call' = [Called("Read") EXCEPT !.len = len, !.rf = (ferr # Nil),
                                      !.avail = avail, !.serr = serr]
    /\ pc' = "returned"
    /\ UNCHANGED <<local, remote>>

Seek(offset, whence) ==
    /\ pc = "idle" /\ h.kind = "remote"
    /\ LET r == RemoteFileSeek(h, offset, whence)
       IN  /\ h' = r.file
           /\ ret' = [NoRet EXCEPT !.err = r.err, !.n = r.n]
    /\ trace' = <<>>
    /\ call' = [Called("Seek") EXCEPT !.delta = offset, !.whence = whence]
    /\ pc' = "returned"
    /\ UNCHANGED <<local, remote>>

Write(len) ==
    /\ pc = "idle" /\ h.kind = "remote"
    /\ LET r == RemoteFileWrite(h, len)
       IN  /\ h' = r.file
           /\ ret' = [NoRet EXCEPT !.err = r.err, !.n = r.n]
    /\ trace' = <<>>
    /\ call' = [Called("Write") EXCEPT !.len = len]
    /\ pc' = "returned"
    /\ UNCHANGED <<local, remote>>

FileStat ==
    /\ pc = "idle" /\ h.kind = "remote"
    /\ LET r == RemoteFileStat(h, IF h.Name = FilePath THEN StatNow(FALSE)
                                  ELSE RemoteStat(remote, h.Name, FALSE))
       IN  /\ ret' = [NoRet EXCEPT !.err = r.err, !.info = r.info]
           /\ trace' = r.trace
    /\ call' = Called("FileStat")
    /\ pc' = "returned"
    /\ UNCHANGED <<local, remote, h>>

FileReaddir(count, rf, order) ==
    /\ pc = "idle" /\ h.kind = "remote"
    /\ LET r == RemoteFileReaddir(h, count, RemoteReadDir(remote, h.Name, rf, order))
       IN  /\ ret' = [NoRet EXCEPT !.err = r.err, !.list = r.list]
           /\ trace' = r.trace
    /\ call' = [Called("FileReaddir") EXCEPT !.count = count, !.rf = rf, !.order = order]
    /\ pc' = "returned"
    /\ UNCHANGED <<local, remote, h>>

\* the remote replaces the file by one of another size
RemoteChange(sz) ==
    /\ pc = "idle"
    /\ sz # rsize
    /\ rsize' = sz
    /\ UNCHANGED <<local, remote, h, pc, call, ret, trace, mu, thr, hist>>

\* the calls on the open remote file.  The outcomes of the fetch are drawn
\* only where Read fetches, those of the stream only where the fetch succeeds.
FileCall ==
    \/ /\ ~h.IsDir /\ ~AtEnd(h.Offset, h.Size)
       /\ \E len \in Lens :
            \/ \E avail \in Lens, serr \in StreamErrs : Read(len, Nil, avail, serr)
            \/ Read(len, Err("REMOTE_FAULT"), 0, Nil)
    \/ /\ h.IsDir \/ AtEnd(h.Offset, h.Size)
       /\ \E len \in Lens : Read(len, Nil, 0, Nil)
    \/ \E offset \in Deltas, whence \in Whences : Seek(offset, whence)
    \/ \E len \in Lens : Write(len)
    \/ FileStat
    \/ \E count \in Counts, rf \in BOOLEAN : \E order \in Orders(remote, h.Name) :
         FileReaddir(count, rf, order)
    \/ Close

FileNext ==
    \/ pc = "idle" /\ h.kind = "none" /\ (\E rf \in BOOLEAN : OpenRemoteFile(rf))
          /\ UNCHANGED <<rsize, mu, thr, hist>>
    \/ (\E rf \in BOOLEAN : OpenRemoteDir(rf)) /\ UNCHANGED <<rsize, mu, thr, hist>>
    \/ pc = "idle" /\ h.kind = "remote" /\ FileCall /\ UNCHANGED <<rsize, mu, thr, hist>>
    \/ \E sz \in 0..MaxSize : RemoteChange(sz)
    \/ Return /\ UNCHANGED <<rsize, mu, thr, hist>>

FileSpec == FileInit /\ [][FileNext]_vars

(***************************************************************************)
(* Concurrent callers of one remote file handle.  Each caller makes one    *)
(* Read or Seek; a method runs in steps: Lock (f.mu.Lock()), then its body *)
(* - for Read the checks up to toRead, then the ranged fetch with the read *)
(* of the stream and the update of Offset - and Unlock (the deferred       *)
(* f.mu.Unlock()).  mu is 0 or the caller that holds the lock.             *)
(***************************************************************************)
Callers == {1, 2}
ConcDeltas == -MaxLen..MaxLen

\* the call of one caller: its arguments and, for a Read, the outcome the
\* remote has for its fetch
ConcCall(op, len, rf, avail, offset, whence) ==
    [pc |-> "lock", op |-> op, len |-> len, rf |-> rf, avail |-> avail,
     delta |-> offset, whence |-> whence, start |-> 0, toRead |-> 0, n |-> 0, err |-> Nil]
ConcCalls ==
    {ConcCall("Read", len, FALSE, avail, 0, 0) : len \in Lens, avail \in Lens}
    \cup {ConcCall("Read", len, TRUE, 0, 0, 0) : len \in Lens}
    \cup {ConcCall("Seek", 0, FALSE, 0, offset, whence) :
            offset \in ConcDeltas, whence \in {SeekStart, SeekCurrent, SeekEnd}}

\* the handles of FilePath a sequence of calls can have left
OpenHandles ==
    {[RemoteFileOf(FilePath, SizedStat(RemoteStat(s, FilePath, FALSE), sz)).file
         EXCEPT !.Offset = o] :
        s \in {x \in Stores : DOMAIN x = {<<>>, NodeOf(FilePath)}},
        sz \in 0..MaxSize, o \in 0..MaxSize}

ConcInit ==
    /\ local = [n \in {<<>>} |-> "dir"]
    /\ remote = [n \in {<<>>} |-> "dir"]
    /\ rsize = 0
    /\ h \in {d \in OpenHandles : d.Offset <= d.Size}
    /\ call = [NoCall EXCEPT !.h = h]
    /\ pc = "idle" /\ ret = NoRet /\ trace = <<>>
    /\ mu = 0
    /\ thr \in [Callers -> ConcCalls]
    /\ hist = NoHist

\* a lock that is never held
LockFreeAlways(m) == TRUE

\* sync.RWMutex.Lock: can it be taken
LockFree(m) == m = 0

Lock(t) ==
    /\ thr[t].pc = "lock"
    /\ LockFree(mu)
    /\ mu' = t
    /\ thr' = [thr EXCEPT ![t].pc = "body"]
    /\ UNCHANGED <<local, remote, h, pc, call, ret, trace, rsize, hist>>

\* Read up to the call of ReadStreamRange
ReadCheck(t) ==
    /\ thr[t].pc = "body" /\ thr[t].op = "Read"
    /\ thr' = IF h.IsDir
              THEN [thr EXCEPT ![t].pc = "unlock", ![t].err = ErrInvalid]
              ELSE IF AtEnd(h.Offset, h.Size)
              THEN [thr EXCEPT ![t].pc = "unlock", ![t].err = EOF]
              ELSE [thr EXCEPT ![t].pc = "fetch", ![t].start = h.Offset,
                               ![t].toRead = ReadLength(thr[t].len, h.Size, h.Offset)]
    /\ UNCHANGED <<local, remote, h, pc, call, ret, trace, rsize, mu, hist>>

\* Read from ReadStreamRange to its return
ReadFetch(t) ==
    /\ thr[t].pc = "fetch"
    /\ LET c == thr[t]
           n == Min(c.avail, Min(c.toRead, c.len))
       IN  IF FetchFailed(IF c.rf THEN Err("REMOTE_FAULT") ELSE Nil)
           THEN /\ thr' = [thr EXCEPT ![t].pc = "unlock", ![t].err = Err("REMOTE_FAULT")]
                /\ h' = h
           ELSE /\ thr' = [thr EXCEPT ![t].pc = "unlock", ![t].n = n]
                /\ h' = Advance(h, n)
    /\ UNCHANGED <<local, remote, pc, call, ret, trace, rsize, mu, hist>>

\* the body of Seek
SeekBody(t) ==
    /\ thr[t].pc = "body" /\ thr[t].op = "Seek"
    /\ LET r == RemoteFileSeek(h, thr[t].delta, thr[t].whence)
       IN  /\ h' = r.file
           /\ thr' = [thr EXCEPT ![t].pc = "unlock", ![t].n = r.n, ![t].err = r.err]
    /\ UNCHANGED <<local, remote, pc, call, ret, trace, rsize, mu, hist>>

Unlock(t) ==
    /\ thr[t].pc = "unlock"
    /\ mu' = 0
    /\ thr' = [thr EXCEPT ![t].pc = "done"]
    /\ UNCHANGED <<local, remote, h, pc, call, ret, trace, rsize, hist>>

ConcNext ==
    \E t \in Callers :
        \/ Lock(t)
        \/ ReadCheck(t)
        \/ ReadFetch(t)
        \/ SeekBody(t)
        \/ Unlock(t)

ConcSpec == ConcInit /\ [][ConcNext]_vars

(***************************************************************************)
(* One handle on a directory.  The server opens "/" or FilePath read-only  *)
(* and calls the methods of the handle one at a time, while entries come   *)
(* and go under the root of the local cache and of the remote.  hist       *)
(* records what the Readdir calls on the handle did.                       *)
(***************************************************************************)
DirInit ==
    /\ local \in FlatStores
    /\ remote \in FlatStores
    /\ h = NoHandle
    /\ pc = "idle"
    /\ call = NoCall
    /\ ret = NoRet
    /\ trace = <<>>
    /\ rsize = 0 /\ mu = 0 /\ thr = <<>> /\ hist = NoHist

\* Read on an open DirectoryFile
DirRead(len) ==
    /\ pc = "idle" /\ h.kind = "dir"
    /\ LET r == DirFileRead(h, len)
       IN  /\ h' = r.file
           /\ ret' = [NoRet EXCEPT !.err = r.err, !.n = r.n]
    /\ trace' = <<>>
    /\ call' = [Called("DirRead") EXCEPT !.len = len]
    /\ pc' = "returned"
    /\ UNCHANGED <<local, remote>>

\* Seek on an open DirectoryFile
DirSeek(offset, whence) ==
    /\ pc = "idle" /\ h.kind = "dir"
    /\ LET r == DirFileSeek(h, offset, whence)
       IN  /\ h' = r.file
           /\ ret' = [NoRet EXCEPT !.err = r.err, !.n = r.n]
    /\ trace' = <<>>
    /\ call' = [Called("DirSeek") EXCEPT !.delta = offset, !.whence = whence]
    /\ pc' = "returned"
    /\ UNCHANGED <<local, remote>>

\* Write on an open DirectoryFile
DirWrite(len) ==
    /\ pc = "idle" /\ h.kind = "dir"
    /\ LET r == DirFileWrite(h, len)
       IN  /\ h' = r.file
           /\ ret' = [NoRet EXCEPT !.err = r.err, !.n = r.n]
    /\ trace' = <<>>
    /\ call' = [Called("DirWrite") EXCEPT !.len = len]
    /\ pc' = "returned"
    /\ UNCHANGED <<local, remote>>

\* an entry under the root of one side appears, goes, or changes its kind
\* while the directory handle is open
Touch(side, n, kind) ==
    /\ pc = "idle" /\ h.kind = "dir"
    /\ LET s == IF side = "local" THEN local ELSE remote
           s2 == IF kind = "none"
                 THEN [m \in DOMAIN s \ {<<n>>} |-> s[m]]
                 ELSE [m \in DOMAIN s \cup {<<n>>} |-> IF m = <<n>> THEN kind ELSE s[m]]
       IN  /\ s2 # s
           /\ s2 \in FlatStores
           /\ local' = IF side = "local" THEN s2 ELSE local
           /\ remote' = IF side = "remote" THEN s2 ELSE remote
    /\ UNCHANGED <<h, pc, call, ret, trace, rsize, mu, thr, hist>>

\* the record after a Readdir call on the handle d that returned r and left
\* the handle as d2
Recorded(hs, d, d2, r, tr) ==
    LET loadedNow == d.FilesNil /\ ~ListerFailed(tr[1].err)
    IN  [calls |-> Min(hs.calls + 1, 2),
         fetches |-> Min(hs.fetches + (IF d.FilesNil THEN 1 ELSE 0), 2),
         ok |-> hs.ok /\ r.err \in {Nil, Err("EOF")},
         loaded |-> hs.loaded \/ loadedNow,
         first |-> IF ~hs.loaded /\ loadedNow THEN d2.Files ELSE hs.first,
         got |-> hs.got \o r.list]

\* the Readdir calls on the open DirectoryFile, with the outcomes of
\* HandleCall above
DirListing ==
    \E count \in Counts :
        \/ h.FilesNil /\ \E order \in Orders(remote, h.Name) :
                            DirReaddir(count, FALSE, FALSE, order, {})
        \/ h.FilesNil /\ DirReaddir(count, FALSE, TRUE, <<>>, {})
        \/ h.FilesNil /\ DirReaddir(count, TRUE, FALSE, <<>>, {})
        \/ ~h.FilesNil /\ DirReaddir(count, FALSE, FALSE, <<>>, {})

\* the calls that a directory handle refuses; a remote file handle on a
\* directory is the one OpenFile returns when the local cache lacks the path
DirRefused ==
    \/ \E len \in {0, 1} : DirRead(len)
    \/ \E offset \in {-1, 1}, whence \in {SeekStart, SeekCurrent, SeekEnd} :
          DirSeek(offset, whence)
    \/ \E len \in {0, 1} : DirWrite(len)
    \/ \E len \in {0, 1} : Read(len, Nil, 0, Nil)
    \/ \E offset \in {-1, 1}, whence \in {SeekStart, SeekCurrent, SeekEnd} :
          Seek(offset, whence)

DirNext ==
    \/ /\ \E name \in {Root, FilePath}, rf \in BOOLEAN : OpenFile(name, O_RDONLY, FALSE, rf)
       /\ UNCHANGED <<rsize, mu, thr, hist>>
    \/ /\ DirListing
       /\ hist' = Recorded(hist, h, h', ret', trace')
       /\ UNCHANGED <<rsize, mu, thr>>
    \/ DirRefused /\ UNCHANGED <<rsize, mu, thr, hist>>
    \/ \E side \in {"local", "remote"}, n \in Names, kind \in {"none", "file", "dir"} :
          Touch(side, n, kind)
    \/ Close /\ hist' = NoHist /\ UNCHANGED <<rsize, mu, thr>>
    \/ Return /\ UNCHANGED <<rsize, mu, thr, hist>>

DirSpec == DirInit /\ [][DirNext]_vars

(***************************************************************************)
(* The derivation of local paths: LocalFilePath applied to "/"-rooted path *)
(* strings of up to MaxPathSegs segments, ".." among them.                 *)
(***************************************************************************)
\* segments after the leading "/" of a path string given to LocalFilePath
MaxPathSegs == 3

PathStrings == {<<"">> \o s : s \in SeqsUpTo(Segs \cup {".."}, MaxPathSegs) \ {<<>>}}

PathInit ==
    /\ local = [n \in {<<>>} |-> "dir"]
    /\ remote = [n \in {<<>>} |-> "dir"]
    /\ h = NoHandle
    /\ pc = "idle"
    /\ call = NoCall
    /\ ret = NoRet
    /\ trace = <<>>
    /\ rsize = 0 /\ mu = 0 /\ thr = <<>> /\ hist = NoHist

\* a call of LocalFilePath
DerivePath(name) ==
    /\ pc = "idle"
    /\ ret' = [NoRet EXCEPT !.path = LocalFilePath(name)]
    /\ call' = [Called("LocalFilePath") EXCEPT !.name = name]
    /\ pc' = "returned"
    /\ UNCHANGED <<local, remote, h, trace>>

PathNext ==
    \/ (\E name \in PathStrings : DerivePath(name)) /\ UNCHANGED <<rsize, mu, thr, hist>>
    \/ Return /\ UNCHANGED <<rsize, mu, thr, hist>>

PathSpec == PathInit /\ [][PathNext]_vars

(***************************************************************************)
(* Stat and Readdir side by side on a directory below the root: each store *)
(* may hold FilePath as a directory with entries in it, hold a file in its *)
(* place, or not hold it, and the server calls Stat and Readdir on         *)
(* FilePath and on the paths in it.                                        *)
(***************************************************************************)
NestedStores ==
    {s \in UNION {[S -> {"file", "dir"}] :
                    S \in SUBSET ({<<>>, NodeOf(FilePath)}
                                  \cup {NodeOf(FilePath) \o <<n>> : n \in Names})} :
        <<>> \in DOMAIN s /\ WellFormed(s)}

NestedInit ==
    /\ local \in NestedStores
    /\ remote \in NestedStores
    /\ h = NoHandle
    /\ pc = "idle"
    /\ call = NoCall
    /\ ret = NoRet
    /\ trace = <<>>
    /\ rsize = 0 /\ mu = 0 /\ thr = <<>> /\ hist = NoHist

\* a remote transport failure, which Readdir tolerates, is drawn; the stores
\* do not change, so no Info() of a listed local entry fails
NestedNext ==
    \/ /\ \E name \in {FilePath} \cup {FilePath \o <<n>> : n \in Names} :
            Stat(name, FALSE, FALSE)
       /\ UNCHANGED <<rsize, mu, thr, hist>>
    \/ /\ \E rf \in BOOLEAN :
            \E order \in IF rf THEN {<<>>} ELSE Orders(remote, FilePath) :
                Readdir(FilePath, FALSE, rf, order, {})
       /\ UNCHANGED <<rsize, mu, thr, hist>>
    \/ Return /\ UNCHANGED <<rsize, mu, thr, hist>>

NestedSpec == NestedInit /\ [][NestedNext]_vars

(***************************************************************************)
(* Concurrent callers of one DirectoryFile.  The struct has no lock, so    *)
(* the reads and writes of d.Files and d.FileIndex that two Readdir calls  *)
(* make interleave one by one: the test of d.Files (check), the call of    *)
(* the lister (fetch), the two assignments after it (store, reset), the    *)
(* computation of end (bound), the slice expression (take) and the         *)
(* assignment of d.FileIndex (advance).  A slice expression whose low      *)
(* index is above its high index panics.                                   *)
(***************************************************************************)
RaceCall(count) ==
    [pc |-> "check", count |-> count, files |-> <<>>, end |-> 0, list |-> <<>>, err |-> Nil]

RaceInit ==
    /\ local = [n \in {<<>>} |-> "dir"]
    /\ remote \in FlatStores
    /\ h = DirectoryFile(Root, OsStat(local, CacheRoot, FALSE).info)
    /\ call = [NoCall EXCEPT !.h = h]
    /\ pc = "idle" /\ ret = NoRet /\ trace = <<>>
    /\ rsize = 0 /\ mu = 0
    /\ thr \in [Callers -> {RaceCall(count) : count \in Counts}]
    /\ hist = NoHist

\* DirectoryFile.Readdir, the part that loads the listing
ReaddirLoad(t) ==
    /\ \/ /\ thr[t].pc = "check"
          /\ thr' = [thr EXCEPT ![t].pc = IF h.FilesNil THEN "fetch" ELSE "bound"]
          /\ UNCHANGED <<h, hist>>
       \/ /\ thr[t].pc = "fetch"
          /\ \E order \in Orders(remote, h.Name) :
                LET rd == ProxyReaddir(local, remote, h.Name, FALSE, FALSE, order, {})
                IN  thr' = IF ListerFailed(rd.err)
                           THEN [thr EXCEPT ![t].pc = "done", ![t].err = rd.err]
                           ELSE [thr EXCEPT ![t].pc = "store", ![t].files = rd.list]
          /\ hist' = [hist EXCEPT !.fetches = Min(@ + 1, 2)]
          /\ UNCHANGED h
       \/ /\ thr[t].pc = "store"
          /\ h' = [h EXCEPT !.Files = thr[t].files, !.FilesNil = (thr[t].files = <<>>)]
          /\ thr' = [thr EXCEPT ![t].pc = "reset"]
          /\ UNCHANGED hist
       \/ /\ thr[t].pc = "reset"
          /\ h' = [h EXCEPT !.FileIndex = 0]
          /\ thr' = [thr EXCEPT ![t].pc = "bound"]
          /\ UNCHANGED hist
    /\ UNCHANGED <<local, remote, pc, call, ret, trace, rsize, mu>>

\* DirectoryFile.Readdir, the part that hands out a batch
ReaddirBatch(t) ==
    /\ \/ /\ thr[t].pc = "bound"
          /\ thr' = [thr EXCEPT ![t].pc = "take",
                                ![t].end = IF thr[t].count <= 0 THEN Len(h.Files)
                                           ELSE BatchEnd(h.FileIndex, thr[t].count,
                                                         Len(h.Files))]
          /\ UNCHANGED h
       \/ /\ thr[t].pc = "take"
          /\ thr' = IF h.FileIndex > thr[t].end
                    THEN [thr EXCEPT ![t].pc = "done", ![t].err = Err("PANIC")]
                    ELSE [thr EXCEPT ![t].pc = "advance",
                                     ![t].list = Slice(h.Files, h.FileIndex, thr[t].end)]
          /\ UNCHANGED h
       \/ /\ thr[t].pc = "advance"
          /\ h' = [h EXCEPT !.FileIndex = IF thr[t].count <= 0 THEN Len(h.Files)
                                          ELSE thr[t].end]
          /\ thr' = [thr EXCEPT ![t].pc = "done",
                                ![t].err = IF thr[t].count > 0
                                              /\ AtListEnd(thr[t].end, Len(h.Files))
                                           THEN Err("EOF") ELSE Nil]
    /\ UNCHANGED <<local, remote, pc, call, ret, trace, rsize, mu, hist>>

RaceNext == \E t \in Callers : ReaddirLoad(t) \/ ReaddirBatch(t)

RaceSpec == RaceInit /\ [][RaceNext]_vars

(***************************************************************************)
(* A caller that reads a handle to its end.  It opens a handle and then    *)
(* calls Read (on a file) or Readdir with a positive count (on a           *)
(* directory) again and again, keeps what each call delivered, and stops   *)
(* at the first call that returns an error, io.EOF included.  Every        *)
(* ranged fetch succeeds, and its stream delivers at least one byte and    *)
(* reports io.EOF only with the last byte of the range; the stores do not  *)
(* change.  hist.got is what the caller received so far (the numbers of    *)
(* the bytes, or the entries), kept up to GotCap elements.                 *)
(***************************************************************************)
GotCap == MaxSize + MaxEntries

LoopInit ==
    /\ local \in FlatStores
    /\ remote \in FlatStores \cup NestedStores
    /\ rsize \in 0..MaxSize
    /\ h = NoHandle
    /\ pc = "idle"
    /\ call = NoCall
    /\ ret = NoRet
    /\ trace = <<>>
    /\ mu = 0 /\ thr = <<>> /\ hist = NoHist

\* the handle is a remote file, a directory of either kind
FileLoop == h.kind = "remote" /\ ~h.IsDir
DirLoop == h.kind = "dir" \/ (h.kind = "remote" /\ h.IsDir)

\* the next call of the caller
LoopCall ==
    \/ \E name \in {Root, FilePath} : OpenFile(name, O_RDONLY, FALSE, FALSE)
    \/ OpenRemoteFile(FALSE)
    \/ /\ FileLoop /\ ~AtEnd(h.Offset, h.Size)
       /\ \E len \in 1..MaxLen, avail \in 1..MaxLen, serr \in {Nil, EOF} :
             /\ serr = EOF => avail >= ReadLength(len, h.Size, h.Offset)
             /\ Read(len, Nil, avail, serr)
    \/ /\ FileLoop /\ AtEnd(h.Offset, h.Size)
       /\ \E len \in 1..MaxLen : Read(len, Nil, 0, Nil)
    \/ \E count \in 1..MaxEntries :
          \E order \in IF h.FilesNil THEN Orders(remote, h.Name) ELSE {<<>>} :
             DirReaddir(count, FALSE, FALSE, order, {})
    \/ /\ DirLoop
       /\ \E count \in 1..MaxEntries : \E order \in Orders(remote, h.Name) :
             FileReaddir(count, FALSE, order)

\* what the call that returned delivered: the bytes from the offset the
\* ranged fetch started at, or the entries
Delivered ==
    IF call.op = "Read" THEN [i \in 1..ret.n |-> call.h.Offset + i - 1] ELSE ret.list

\* the caller takes the result: it keeps what was delivered and stops on an
\* error
LoopTake ==
    /\ pc = "returned"
    /\ pc' = IF ret.err # Nil THEN "stopped" ELSE "idle"
    /\ hist' = [hist EXCEPT !.got = SubSeq(@ \o Delivered, 1,
                                           Min(Len(@ \o Delivered), GotCap))]
    /\ call' = NoCall
    /\ ret' = NoRet
    /\ trace' = <<>>
    /\ UNCHANGED <<local, remote, h, rsize, mu, thr>>

LoopNext ==
    \/ LoopCall /\ UNCHANGED <<rsize, mu, thr, hist>>
    \/ LoopTake

\* The caller is a running loop and every call returns: the caller goes on
\* as long as it has a next step.  It has one exactly in the states of
\* Running, and each of its steps changes pc, so the fairness of LoopNext
\* is stated on Proceed.
Running == pc = "returned" \/ (pc = "idle" /\ h.kind \in {"none", "remote", "dir"})
Proceed == Running /\ pc' \in {"idle", "returned", "stopped"} \ {pc}

LoopSpec == LoopInit /\ [][LoopNext]_vars /\ WF_pc(Proceed)

(***************************************************************************)
(* Properties.  In a state with pc = "returned", call holds the arguments  *)
(* of the call, the outcomes chosen by the environment and the stores the  *)
(* call started in, so what the two capabilities answer to it can be       *)
(* recomputed and compared with what the proxy returned.                   *)
(***************************************************************************)
Returned(op) == pc = "returned" /\ call.op = op
RemoteCalls(tr) == SelectSeq(tr, LAMBDA c : c.side = "remote")
DenotesRoot(name) == LocalFilePath(name) = CacheRoot

\* what os.Stat and Webdav.Stat answer to the returned Stat call
StatLocal == OsStat(call.local, LocalFilePath(call.name), call.lf)
StatRemote == RemoteStat(call.remote, call.name, call.rf)

\* C1: Stat of a non-root path whose local stat succeeds returns the local
\* metadata and makes no remote call; when the local stat fails, Stat makes
\* exactly one remote Stat call, with the path as given, and returns its
\* metadata and error unchanged.
C1_StatLocalFirst ==
    Returned("Stat") =>
        /\ (StatLocal.err = Nil /\ ~DenotesRoot(call.name)) =>
              /\ ret = [NoRet EXCEPT !.info = StatLocal.info]
              /\ RemoteCalls(trace) = <<>>
        /\ StatLocal.err # Nil =>
              /\ ret = [NoRet EXCEPT !.err = StatRemote.err, !.info = StatRemote.info]
              /\ RemoteCalls(trace) = <<T("remote", "Stat", call.name, StatRemote.err)>>

\* C1 witness: a Stat whose local stat failed and that returned the remote
\* metadata of a path present in the remote store only.
C1_Witness ==
    /\ Returned("Stat")
    /\ StatLocal.err # Nil
    /\ ret.err = Nil /\ ret.info.src = "remote"
    /\ Len(RemoteCalls(trace)) = 1

\* C2 (as claimed): Stat of any path string that denotes the root queries the
\* remote capability and returns its result, although the local stat of the
\* cache root succeeds.
C2_StatRootAnySpelling ==
    (Returned("Stat") /\ DenotesRoot(call.name)) =>
        /\ ret = [NoRet EXCEPT !.err = StatRemote.err, !.info = StatRemote.info]
        /\ RemoteCalls(trace) = <<T("remote", "Stat", call.name, StatRemote.err)>>

\* what os.ReadDir and Webdav.ReadDir answer to the returned Readdir call
ListLocal == OsReadDir(call.local, LocalFilePath(call.name), call.lf)
ListRemote == RemoteReadDir(call.remote, call.name, call.rf, call.order)
NamesOf(list) == {list[i].name : i \in 1..Len(list)}
NoRepeatedName(list) == \A i, j \in 1..Len(list) : i # j => list[i].name # list[j].name

C5_ReaddirLocalFatal ==
    (Returned("Readdir") /\ ListLocal.err # Nil /\ ~IsNotExist(ListLocal.err)) =>
        /\ ret = [NoRet EXCEPT !.err = ListLocal.err]
        /\ RemoteCalls(trace) = <<>>

\* C5 witness: a Readdir of a path that is a regular file locally (ENOTDIR)
\* and a directory remotely.
C5_Witness ==
    /\ Returned("Readdir")
    /\ ListLocal.err.msg = "ENOTDIR"
    /\ ListRemote.err = Nil
    /\ ret.err.msg = "ENOTDIR"

\* what os.OpenFile answers to the returned OpenFile call
OpenLocal == OsOpenFile(call.local, LocalFilePath(call.name), call.flag, call.lf)
\* what the proxy's own Readdir answers for the path of the DirectoryFile
\* the returned DirReaddir call was made on
Merged ==
    ProxyReaddir(call.local, call.remote, call.h.Name,
                 call.lf, call.rf, call.order, call.infoFail)

\* C6: an OpenFile whose local open succeeds returns, for a directory, a
\* DirectoryFile for the path, and for a regular file the local handle; the
\* first Readdir on that DirectoryFile returns entries of the proxy's merged
\* Readdir of the path (all of them for count <= 0, else the first count).
C6_OpenLocal ==
    /\ (Returned("OpenFile") /\ OpenLocal.err = Nil) =>
          /\ ret.err = Nil /\ h = ret.file
          /\ RemoteCalls(trace) = <<>>
          /\ OpenLocal.isDir =>
                /\ ret.file.kind = "dir" /\ ret.file.Name = call.name
                /\ ret.file.FilesNil /\ ret.file.FileIndex = 0
                /\ ret.file.FileInfo = OpenLocal.info
          /\ ~OpenLocal.isDir => ret.file = OsFile(LocalFilePath(call.name), OpenLocal.info)
    /\ (Returned("DirReaddir") /\ call.h.FilesNil) =>
          /\ ret.err \in {Nil, Err("EOF")} =>
                ret.list = SubSeq(Merged.list, 1,
                                  IF call.count <= 0 THEN Len(Merged.list)
                                  ELSE Min(call.count, Len(Merged.list)))
          /\ ret.err \notin {Nil, Err("EOF")} => ret.err = Merged.err /\ ret.list = <<>>

\* C6 witness: the first Readdir on a DirectoryFile returned a local entry
\* followed by a remote one.
C6_Witness ==
    /\ Returned("DirReaddir") /\ call.h.FilesNil /\ call.h.kind = "dir"
    /\ Len(ret.list) = 2
    /\ ret.list[1].src = "local" /\ ret.list[2].src = "remote"

\* what Webdav.Stat answers to the returned OpenFile call
OpenRemote == RemoteStat(call.remote, call.name, call.rf)

\* C7 (as claimed): when the local open fails, every flag whose access mode
\* is read-only (alone, or with other bits set) yields a remote file handle
\* for the path, or the error of the remote Stat; every other flag fails
\* with ErrNotExist and no remote call.
C7_OpenRemoteByIntent ==
    (Returned("OpenFile") /\ OpenLocal.err # Nil) =>
        IF AccessMode(call.flag) = O_RDONLY
        THEN /\ ret.err = OpenRemote.err
             /\ RemoteCalls(trace) = <<T("remote", "Stat", call.name, OpenRemote.err)>>
             /\ ret.err = Nil =>
                   /\ ret.file.kind = "remote" /\ ret.file.Name = call.name
                   /\ ret.file.FileInfo = OpenRemote.info
             /\ ret.err # Nil => ret.file = NoHandle
        ELSE /\ ret = [NoRet EXCEPT !.err = Err("ErrNotExist")]
             /\ RemoteCalls(trace) = <<>>

\* what the two sides answer to the returned Mkdir, RemoveAll or Rename call
IsDualWrite == pc = "returned" /\ call.op \in {"Mkdir", "RemoveAll", "Rename"}
SideOp == IF call.op = "Mkdir" THEN "MkdirAll" ELSE call.op
LocalSide ==
    IF call.op = "Mkdir" THEN OsMkdirAll(call.local, LocalFilePath(call.name), call.lf)
    ELSE IF call.op = "RemoveAll" THEN OsRemoveAll(call.local, LocalFilePath(call.name), call.lf)
    ELSE OsRename(call.local, LocalFilePath(call.name), LocalFilePath(call.name2), call.lf)
RemoteSide ==
    IF call.op = "Mkdir" THEN RemoteMkdirAll(call.remote, call.name, call.rf)
    ELSE IF call.op = "RemoveAll" THEN RemoteRemoveAll(call.remote, call.name, call.rf)
    ELSE RemoteRename(call.remote, call.name, call.name2, call.rf)

\* C8: Mkdir, RemoveAll and Rename make exactly two calls, the local
\* operation and then the remote one, whatever the outcome of either.
C8_DualWriteBothAttempted ==
    IsDualWrite =>
        trace = <<T("local", SideOp, LocalFilePath(call.name), LocalSide.err),
                  T("remote", SideOp, call.name, RemoteSide.err)>>

\* C8 witness: the remote operation ran and succeeded after the local one
\* had failed.
C8_Witness ==
    /\ IsDualWrite
    /\ LocalSide.err # Nil /\ RemoteSide.err = Nil
    /\ Len(trace) = 2 /\ trace[2].side = "remote" /\ trace[2].err = Nil
    /\ remote # call.remote

\* C9: Mkdir, RemoveAll and Rename succeed exactly when at least one side
\* succeeded, and the stores hold what each side left: the effect of a side
\* that succeeded stays when the other failed.
C9_DualWriteEitherSucceeds ==
    IsDualWrite =>
        /\ (ret.err = Nil) <=> (LocalSide.err = Nil \/ RemoteSide.err = Nil)
        /\ local = LocalSide.store
        /\ remote = RemoteSide.store

\* C9 witness: a successful Mkdir whose local side failed and whose remote
\* side created the directory.
C9_Witness ==
    /\ Returned("Mkdir")
    /\ LocalSide.err # Nil /\ RemoteSide.err = Nil
    /\ ret.err = Nil
    /\ local = call.local
    /\ NodeOf(call.name) \notin DOMAIN call.remote /\ NodeOf(call.name) \in DOMAIN remote

\* C10: when both sides fail, the returned error wraps the local error and
\* carries the remote error neither as its cause nor as its message.
C10_CombinedFailureWrapsLocal ==
    (IsDualWrite /\ LocalSide.err # Nil /\ RemoteSide.err # Nil) =>
        /\ ret.err # Nil
        /\ ret.err.cause = LocalSide.err.msg
        /\ ret.err.cause # RemoteSide.err.msg
        /\ ret.err.msg # RemoteSide.err.msg

\* C10 witness: a RemoveAll whose two sides failed.
C10_Witness ==
    /\ Returned("RemoveAll")
    /\ LocalSide.err # Nil /\ RemoteSide.err # Nil
    /\ ret.err.cause = LocalSide.err.msg

(***************************************************************************)
(* Properties of the remote file handle, under FileSpec.  call.h is the    *)
(* handle the returned call started on, h the handle it left.              *)
(***************************************************************************)
Fetches(tr) == SelectSeq(tr, LAMBDA c : c.op = "ReadStreamRange")
\* a Read that went as far as the ranged fetch
Fetching == Returned("Read") /\ ~call.h.IsDir /\ call.h.Offset < call.h.Size
\* the candidate offset of the returned Seek, as an integer
Candidate ==
    IF call.whence = SeekStart THEN call.delta
    ELSE IF call.whence = SeekCurrent THEN call.h.Offset + call.delta
    ELSE call.h.Size + call.delta
ValidWhence == call.whence \in {SeekStart, SeekCurrent, SeekEnd}

\* C11: the offset of a remote file handle is never negative and never
\* beyond the size, whatever calls were made on the handle and whatever the
\* ranged fetches delivered.
C11_OffsetInRange == h.kind = "remote" => 0 <= h.Offset /\ h.Offset <= h.Size

\* C11: a Seek beyond the end has been clamped, from an offset that an
\* earlier call had moved above 0.
C11_Witness ==
    /\ Returned("Seek") /\ ret.err = Nil
    /\ call.h.Offset > 0 /\ Candidate > h.Size /\ h.Offset = h.Size

\* C12: a Read below the end of the file issues one ranged fetch
\* (path, offset, min(len, size - offset)), returns no more bytes than it
\* asked for, closes the stream it got, and moves the offset by the bytes it
\* returns; this holds for every Read, whether the range was read before or not.
C12_ReadFetchesOnce ==
    Returned("Read") /\ call.h.Offset < call.h.Size =>
        /\ Len(Fetches(trace)) = 1
        /\ Fetches(trace)[1].arg =
              <<call.h.Name, call.h.Offset, Min(call.len, call.h.Size - call.h.Offset)>>
        /\ ret.n <= Min(call.len, call.h.Size - call.h.Offset)
        /\ ~call.rf => trace[Len(trace)] = T("stream", "Close", 0, Nil)
        /\ h.Offset = call.h.Offset + ret.n

\* C12: a Read at an offset that an earlier call left above 0 fetched and
\* returned bytes.
C12_Witness ==
    /\ Fetching /\ call.h.Offset > 0 /\ ret.n > 0
    /\ call.len > call.h.Size - call.h.Offset

\* C13 (as stated): at offset 0 of a file of size N, a Read into a buffer of
\* k <= N bytes whose fetch and stream do not fail returns k bytes and leaves
\* the offset at k.
C13_ReadFillsBuffer ==
    /\ Returned("Read") /\ ~call.h.IsDir /\ call.h.Offset = 0
    /\ call.len <= call.h.Size /\ ~call.rf /\ call.serr = Nil
    => ret.n = call.len /\ h.Offset = call.len

\* C13 (amended): such a Read returns as many bytes as the one read of the
\* stream delivers, at most k, and leaves the offset at that number; it
\* returns k bytes when the stream delivers k.
C13_ReadReturnsDelivered ==
    /\ Returned("Read") /\ ~call.h.IsDir /\ call.h.Offset = 0
    /\ call.len <= call.h.Size /\ ~call.rf /\ call.serr = Nil
    => /\ ret.n = Min(call.avail, call.len)
       /\ h.Offset = ret.n
       /\ ret.err = Nil \/ call.h.Size = 0

\* C13: a buffer of k > 0 bytes was filled by a stream that delivered it all.
C13_Witness ==
    /\ Fetching /\ call.h.Offset = 0 /\ call.len <= call.h.Size /\ call.len > 1
    /\ ~call.rf /\ call.serr = Nil /\ call.avail >= call.len
    /\ ret.n = call.len /\ h.Offset = call.len

\* C14 (as stated): a Read at or beyond the end returns no bytes and EOF,
\* fetches nothing and leaves the offset alone.
C14_ReadAtEnd ==
    Returned("Read") /\ call.h.Offset >= call.h.Size =>
        ret.n = 0 /\ ret.err = EOF /\ trace = <<>> /\ h.Offset = call.h.Offset

\* C14 (amended): so does a Read on a handle that is not a directory; and no
\* call but Seek moves the offset of a handle that is at its end.
C14_FileReadAtEnd ==
    /\ Returned("Read") /\ ~call.h.IsDir /\ call.h.Offset >= call.h.Size =>
          ret.n = 0 /\ ret.err = EOF /\ trace = <<>> /\ h.Offset = call.h.Offset
    /\ /\ pc = "returned" /\ call.op \in {"Read", "Write", "FileStat", "FileReaddir"}
       /\ ~call.h.IsDir /\ call.h.Offset >= call.h.Size
       => h.Offset = call.h.Offset

\* C14: a Read at the end of a file of positive size returned EOF.
C14_Witness ==
    /\ Returned("Read") /\ ~call.h.IsDir /\ call.h.Size > 0 /\ call.len > 0
    /\ call.h.Offset = call.h.Size /\ ret.err = EOF /\ ret.n = 0

\* C15: a Seek with a valid whence on a file sets and returns the candidate
\* offset delta, offset + delta or size + delta when it lies in 0..size, and
\* sets and returns the size when the candidate is beyond the size.
C15_SeekCandidate ==
    Returned("Seek") /\ ~call.h.IsDir /\ ValidWhence =>
        /\ Candidate \in 0..call.h.Size =>
              ret.err = Nil /\ ret.n = Candidate /\ h.Offset = Candidate
        /\ Candidate > call.h.Size =>
              ret.err = Nil /\ ret.n = call.h.Size /\ h.Offset = call.h.Size

\* C16: a Seek fails exactly when the handle is a directory, the whence is
\* not one of the three origins or the candidate offset is negative; a failing
\* Seek returns ErrInvalid and 0 and leaves the handle as it was.
C16_SeekFailure ==
    Returned("Seek") =>
        /\ call.h.IsDir \/ ~ValidWhence \/ Candidate < 0 => ret.err # Nil
        /\ ret.err # Nil => ret.err = ErrInvalid /\ ret.n = 0 /\ h = call.h

\* C16: a Seek to a negative candidate failed at an offset above 0.
C16_Witness ==
    /\ Returned("Seek") /\ ~call.h.IsDir /\ ValidWhence /\ Candidate < 0
    /\ call.h.Offset > 0 /\ ret.err = ErrInvalid /\ h.Offset = call.h.Offset

C18_FetchErrorPropagates ==
    Fetching /\ call.rf =>
        /\ ret.n = 0 /\ ret.err = Err("REMOTE_FAULT")
        /\ h.Offset = call.h.Offset
        /\ Len(trace) = 1 /\ Len(Fetches(trace)) = 1

\* C18: a fetch failed in the middle of a file.
C18_Witness ==
    /\ Fetching /\ call.rf /\ call.h.Offset > 0 /\ call.len > 0
    /\ ret.err = Err("REMOTE_FAULT")

\* what the remote answers to Stat(FilePath) at the start of the returned call
StatThen == SizedStat(RemoteStat(call.remote, FilePath, call.rf), call.rsize)

\* C19: the handle takes size, directory flag and metadata from the one
\* remote Stat of its creation; no step on an open handle changes them, no
\* method of the handle calls the remote Stat, and Stat returns the metadata
\* of the creation whatever the remote reports now.
C19_SnapshotFrozen ==
    /\ [](/\ Returned("OpenRemoteFile") /\ ret.err = Nil =>
               /\ trace = <<T("remote", "Stat", FilePath, Nil)>>
               /\ h.FileInfo = StatThen.info
               /\ h.Size = StatThen.info.size /\ h.IsDir = StatThen.info.isDir
          /\ pc = "returned" /\ call.op \in {"Read", "Seek", "Write", "FileStat", "FileReaddir"} =>
               \A i \in 1..Len(trace) : trace[i].op # "Stat"
          /\ Returned("FileStat") =>
               ret.err = Nil /\ ret.info = call.h.FileInfo /\ trace = <<>>)
    /\ [][h.kind = "remote" /\ h'.kind = "remote" =>
            h'.Size = h.Size /\ h'.IsDir = h.IsDir /\ h'.FileInfo = h.FileInfo]_vars

\* C19: Stat returned the size of the creation after the remote file changed
\* its size.
C19_Witness ==
    /\ Returned("FileStat") /\ ~h.IsDir
    /\ rsize # h.Size /\ ret.info.size = h.Size

(***************************************************************************)
(* Properties of concurrent callers, under ConcSpec.  call.h is the handle *)
(* as it was before the callers started.                                   *)
(***************************************************************************)
AllDone == \A t \in Callers : thr[t].pc = "done"
\* the method of caller t run on its own on the handle d
Alone(d, t) ==
    IF thr[t].op = "Read"
    THEN RemoteFileRead(d, thr[t].len,
            [err |-> IF thr[t].rf THEN Err("REMOTE_FAULT") ELSE Nil,
             avail |-> thr[t].avail, serr |-> Nil])
    ELSE RemoteFileSeek(d, thr[t].delta, thr[t].whence)
\* do the results of the callers and the handle they left equal those of
\* running their methods one after the other in this order, starting on d
RECURSIVE SerialOutcome(_, _)
SerialOutcome(order, d) ==
    IF order = <<>> THEN h = d
    ELSE LET t == Head(order)
             r == Alone(d, t)
         IN  /\ thr[t].n = r.n /\ thr[t].err = r.err
             /\ SerialOutcome(Tail(order), r.file)
\* a Read that returned bytes without an error
ReadOk(t) == thr[t].pc = "done" /\ thr[t].op = "Read" /\ thr[t].err = Nil /\ thr[t].n > 0
Disjoint(a, la, b, lb) == a + la <= b \/ b + lb <= a
InMethod(t) == thr[t].pc \in {"body", "fetch", "unlock"}

\* C20 (as stated): a caller holds the lock from Lock to Unlock, the outcome
\* of concurrent Reads and Seeks is that of a serial order, and two
\* successful Reads have fetched ranges (offset, toRead) that do not overlap
\* and leave the offset at the starting offset plus the bytes returned.
C20_SerialFetchRangesDisjoint ==
    /\ \A t \in Callers : InMethod(t) => mu = t
    /\ AllDone =>
        /\ \E order \in Perms(Callers) : SerialOutcome(order, call.h)
        /\ \A t, u \in Callers : t # u /\ ReadOk(t) /\ ReadOk(u) =>
              /\ Disjoint(thr[t].start, thr[t].toRead, thr[u].start, thr[u].toRead)
              /\ h.Offset = call.h.Offset + thr[t].n + thr[u].n

\* C20 (amended): the same, with the ranges of the bytes the two Reads
\* returned in place of the ranges they asked for.
C20_SerialReturnedRangesDisjoint ==
    /\ \A t \in Callers : InMethod(t) => mu = t
    /\ AllDone =>
        /\ \E order \in Perms(Callers) : SerialOutcome(order, call.h)
        /\ \A t, u \in Callers : t # u /\ ReadOk(t) /\ ReadOk(u) =>
              /\ Disjoint(thr[t].start, thr[t].n, thr[u].start, thr[u].n)
              /\ h.Offset = call.h.Offset + thr[t].n + thr[u].n

\* C20: two Reads that were both waiting for the lock have each returned
\* bytes, the second one from where the first one stopped.
C20_Witness ==
    /\ AllDone /\ ReadOk(1) /\ ReadOk(2)
    /\ thr[2].start = call.h.Offset /\ thr[1].start = call.h.Offset + thr[2].n
    /\ h.Offset = call.h.Offset + thr[1].n + thr[2].n

(***************************************************************************)
(* The directory handle (DirSpec).                                         *)
(***************************************************************************)
\* the returned DirReaddir call did not fail in the lister
ListedOk == Returned("DirReaddir") /\ ret.err \in {Nil, EOF}
\* the listing that call served from: the one it fetched, or the cached one
Served == IF call.h.FilesNil THEN Merged.list ELSE call.h.Files
\* an open DirectoryFile whose lister has succeeded and whose cursor is at
\* the end of the cached sequence
Exhausted == h.kind = "dir" /\ hist.loaded /\ h.FileIndex = Len(h.Files)

\* C21: Readdir(count) with count > 0 returns the min(count, remaining)
\* entries of the sequence from the cursor on and advances the cursor by
\* that number; it returns the end marker exactly when the cursor is at the
\* end of the sequence after the call, so the first call on an empty
\* directory returns an empty batch with the end marker.
C21_ReaddirBatch ==
    ListedOk /\ call.count > 0 =>
        LET cur == call.h.FileIndex
            k == Min(call.count, Len(Served) - cur)
        IN  /\ ret.list = SubSeq(Served, cur + 1, cur + k)
            /\ h.FileIndex = cur + k
            /\ (ret.err = EOF) = (h.FileIndex = Len(Served))
            /\ (Served = <<>>) => (ret.list = <<>> /\ ret.err = EOF)

\* C21: the second Readdir(2) on a directory of two entries, after a
\* Readdir(1), returns the one remaining entry with the end marker.
C21_Witness ==
    /\ ListedOk /\ call.count = 2 /\ call.h.FileIndex = 1 /\ Len(Served) = 2
    /\ Len(ret.list) = 1 /\ ret.err = EOF

\* C22: once the adapter is exhausted, every further Readdir call, whatever
\* its count, returns an empty batch with the end marker and leaves the
\* cursor at the end.
C22_ExhaustedStaysAtEnd ==
    [][pc = "idle" /\ Exhausted /\ call'.op = "DirReaddir" =>
          ret'.list = <<>> /\ ret'.err = EOF /\ h'.FileIndex = Len(h'.Files)]_vars

\* C23: while every Readdir call on the adapter has succeeded, the lister
\* has been invoked at most once.
C23_ListerOnce == h.kind = "dir" /\ hist.ok => hist.fetches <= 1

\* C24: the cursor stays between 0 and the length of the cached sequence
\* and never decreases, and once the lister has succeeded the cached
\* sequence is the one first fetched, whatever happens to the directories.
C24_CursorAndCacheStable ==
    /\ [](h.kind = "dir" => 0 <= h.FileIndex /\ h.FileIndex <= Len(h.Files))
    /\ [](h.kind = "dir" /\ hist.loaded => h.Files = hist.first)
    /\ [][h.kind = "dir" /\ h'.kind = "dir" => h'.FileIndex >= h.FileIndex]_vars

\* C25: the batches returned so far, one after the other, are the cached
\* sequence up to the cursor, and a Readdir with count <= 0 returns all the
\* entries from the cursor on.
C25_BatchesArePrefix ==
    /\ h.kind = "dir" => hist.got = SubSeq(h.Files, 1, h.FileIndex)
    /\ ListedOk /\ call.count <= 0 =>
          ret.list = SubSeq(Served, call.h.FileIndex + 1, Len(Served))

\* C25: after a Readdir(1) on a directory of two entries, a Readdir with
\* count <= 0 returns the second entry, and both have been returned once.
C25_Witness ==
    /\ ListedOk /\ call.count <= 0 /\ call.h.FileIndex = 1 /\ Len(ret.list) = 1
    /\ hist.got = h.Files /\ Len(h.Files) = 2

\* a returned call that a directory handle refuses: Read, Seek or Write on a
\* DirectoryFile, Read or Seek on a remote file handle whose IsDir is set
Refused ==
    \/ Returned("DirRead") \/ Returned("DirSeek") \/ Returned("DirWrite")
    \/ call.h.IsDir /\ (Returned("Read") \/ Returned("Seek"))

\* C28: Read and Seek on a remote file handle of a directory, and Read, Seek
\* and Write on a DirectoryFile, fail with ErrInvalid, call neither side and
\* leave the handle and both stores as they were.
C28_DirectoryRefuses ==
    Refused =>
        /\ ret.err = ErrInvalid /\ ret.n = 0
        /\ trace = <<>>
        /\ h = call.h /\ local = call.local /\ remote = call.remote

\* C28: a Seek on a DirectoryFile whose cursor has advanced was refused.
C28_Witness == Returned("DirSeek") /\ call.h.FileIndex > 0 /\ ret.err = ErrInvalid

\* C29: a Readdir whose lister fails returns no entries and the lister's
\* error, leaves the handle as it was with no sequence cached, and a Readdir
\* on a handle with no sequence cached invokes the lister.
C29_ListerErrorLeavesAdapter ==
    /\ [](Returned("DirReaddir") /\ call.h.FilesNil /\ Merged.err # Nil =>
            /\ ret.list = <<>> /\ ret.err = Merged.err
            /\ h = call.h /\ h.FilesNil)
    /\ [][pc = "idle" /\ h.kind = "dir" /\ h.FilesNil /\ call'.op = "DirReaddir" =>
            trace' # <<>> /\ trace'[1] = T("proxy", "Readdir", h.Name, trace'[1].err)]_vars

\* C29: after a Readdir that failed in the lister, a second Readdir fetched
\* the listing and returned entries.
C29_Witness ==
    /\ ListedOk /\ ret.list # <<>>
    /\ ~hist.ok /\ hist.calls = 2 /\ hist.fetches = 2

(***************************************************************************)
(* remoteFile.Readdir and the overflow of Seek (FileSpec).                 *)
(***************************************************************************)
\* what Webdav.ReadDir answers to the returned FileReaddir call
Listed == RemoteReadDir(call.remote, call.h.Name, call.rf, call.order)

\* C26: Readdir on a remote file handle that is not a directory fails with
\* ErrInvalid without a remote call; on a directory it lists the remote
\* directory once and returns the whole listing for count <= 0, else its
\* first min(count, number of entries) entries; a listing error is returned
\* as it is, with no entries.
C26_RemoteReaddir ==
    Returned("FileReaddir") =>
        IF ~call.h.IsDir
        THEN ret.err = ErrInvalid /\ ret.list = <<>> /\ trace = <<>>
        ELSE /\ trace = <<T("remote", "ReadDir", call.h.Name, Listed.err)>>
             /\ Listed.err # Nil => ret.err = Listed.err /\ ret.list = <<>>
             /\ Listed.err = Nil =>
                   /\ ret.err = Nil
                   /\ ret.list = IF call.count <= 0 THEN Listed.entries
                                 ELSE SubSeq(Listed.entries, 1,
                                             Min(call.count, Len(Listed.entries)))

\* C26: Readdir(1) on the handle of a remote directory with two entries
\* returned the first entry of the listing.
C26_Witness ==
    /\ Returned("FileReaddir") /\ call.h.IsDir /\ call.count = 1
    /\ Listed.err = Nil /\ Len(Listed.entries) = 2
    /\ ret.list = <<Listed.entries[1]>>

\* C30: a Seek relative to the current offset or to the end whose candidate
\* base + delta, taken as a mathematical integer, exceeds the size succeeds
\* and leaves the offset at exactly the size.
C30_SeekClampsBeyondInt ==
    /\ Returned("Seek") /\ ~call.h.IsDir
    /\ call.whence \in {SeekCurrent, SeekEnd}
    /\ Candidate > call.h.Size
    => ret.err = Nil /\ ret.n = call.h.Size /\ h.Offset = call.h.Size

(***************************************************************************)
(* Local paths (PathSpec).                                                 *)
(***************************************************************************)
\* the path string without its "." segments, duplicate slashes and trailing
\* slash
Plain(name) ==
    LET segs == SelectSeq(Tail(name), LAMBDA e : e \notin {"", "."})
    IN  IF segs = <<>> THEN Root ELSE <<"">> \o segs

\* C27: the local path of a "/"-rooted path string is the cache root joined
\* with the cleaned path less its leading "/"; it is the cache root or lies
\* below it, whatever ".." segments the string has; and it is the local path
\* of the string without its "." segments, duplicate slashes and trailing
\* slash, which for a string without ".." is the cache root followed by the
\* remaining segments.
C27_LocalPathUnderCacheRoot ==
    Returned("LocalFilePath") =>
        /\ ret.path = CacheRoot \o (IF Clean(call.name) = Root THEN <<>>
                                     ELSE Tail(Clean(call.name)))
        /\ IsPrefix(CacheRoot, ret.path)
        /\ \A i \in Len(CacheRoot) + 1 .. Len(ret.path) : ret.path[i] \in Names
        /\ ret.path = LocalFilePath(Plain(call.name))
        /\ (\A i \in 1..Len(call.name) : call.name[i] # "..") =>
              ret.path = CacheRoot \o (IF Plain(call.name) = Root THEN <<>>
                                       ELSE Tail(Plain(call.name)))

\* C27: a path string that starts with a ".." segment and has a "." segment
\* was mapped to a path below the cache root.
C27_Witness ==
    /\ Returned("LocalFilePath")
    /\ call.name[2] = ".." /\ (\E i \in 1..Len(call.name) : call.name[i] = ".")
    /\ Len(ret.path) > Len(CacheRoot) /\ IsPrefix(CacheRoot, ret.path)

(***************************************************************************)
(* The end of the stream of a remote file (FileSpec).                      *)
(***************************************************************************)
\* C31: a Read on a remote file handle that returns the end-of-stream
\* signal leaves the offset at the size.
C31_EndOfStreamAtSize == Returned("Read") /\ ret.err = EOF => h.Offset = h.Size

(***************************************************************************)
(* What the proxy's operations leave behind (Spec).                        *)
(***************************************************************************)
\* C37: OpenFile calls no MkdirAll, RemoveAll, Rename or ReadStreamRange of
\* the remote and leaves the remote as it was; it makes no remote call when
\* the local open succeeds, and at most one, a Stat, when it fails.
C37_OpenFileRemoteCalls ==
    Returned("OpenFile") =>
        /\ \A i \in 1..Len(trace) : trace[i].side = "remote" => trace[i].op = "Stat"
        /\ remote = call.remote
        /\ OpenLocal.err = Nil => RemoteCalls(trace) = <<>>
        /\ OpenLocal.err # Nil => Len(RemoteCalls(trace)) <= 1

\* C37: an OpenFile whose local open failed returned a remote file handle
\* after one Stat of the remote.
C37_Witness ==
    /\ Returned("OpenFile") /\ OpenLocal.err # Nil /\ ret.err = Nil
    /\ RemoteCalls(trace) = <<T("remote", "Stat", call.name, Nil)>>

\* a not-found error of either side
NotFound(e) == e.msg \in {"ENOENT", "ErrNotExist", "REMOTE_404"}
\* what Stat(name) answers in the stores as they are now
StatAfter(name) == ProxyStat(local, remote, name, FALSE, FALSE)
\* the directory the cleaned path name lies in
Parent(name) == IF Len(name) <= 2 THEN Root ELSE Front(name)
\* does Readdir of the parent of name list name, in the stores as they are now
ListedAfter(name) ==
    \E order \in Orders(remote, Parent(name)) :
        Last(name) \in NamesOf(ProxyReaddir(local, remote, Parent(name),
                                            FALSE, FALSE, order, {}).list)
\* did the store s hold the path name
Held(s, name) == NodeOf(name) \in DOMAIN s
\* each side of the returned dual write succeeded, or its store did not hold
\* the path the call was made on
SidesDone ==
    /\ LocalSide.err = Nil \/ ~Held(call.local, call.name)
    /\ RemoteSide.err = Nil \/ ~Held(call.remote, call.name)

\* C33 (as claimed): after a RemoveAll that returned success, Stat of the
\* path reports not-found and Readdir of its parent does not list it.
C33_RemovedIsGone ==
    Returned("RemoveAll") /\ ret.err = Nil =>
        /\ NotFound(StatAfter(call.name).err)
        /\ call.name # Root => ~ListedAfter(call.name)

\* C33 (amended): the same for a path other than the root, when each of the
\* two removals succeeded or its store did not hold the path.
C33_RemovedIsGoneWhenSidesDone ==
    Returned("RemoveAll") /\ ret.err = Nil /\ call.name # Root /\ SidesDone =>
        /\ NotFound(StatAfter(call.name).err)
        /\ ~ListedAfter(call.name)

\* C33: a path held by both stores was removed from both.
C33_Witness ==
    /\ Returned("RemoveAll") /\ ret.err = Nil /\ call.name # Root
    /\ Held(call.local, call.name) /\ Held(call.remote, call.name)
    /\ LocalSide.err = Nil /\ RemoteSide.err = Nil
    /\ NotFound(StatAfter(call.name).err)

\* C34 (as claimed): after a Rename that returned success, Stat of the old
\* path reports not-found and Stat of the new path succeeds.
C34_RenamedIsMoved ==
    Returned("Rename") /\ ret.err = Nil =>
        /\ NotFound(StatAfter(call.name).err)
        /\ StatAfter(call.name2).err = Nil

\* C34 (amended): after a Rename that returned success Stat of the new path
\* succeeds, and Stat of the old path reports not-found when the two paths
\* differ and each of the two renames succeeded or its store did not hold
\* the old path.
C34_RenamedIsMovedWhenSidesDone ==
    Returned("Rename") /\ ret.err = Nil =>
        /\ StatAfter(call.name2).err = Nil
        /\ call.name # call.name2 /\ SidesDone => NotFound(StatAfter(call.name).err)

\* C34: a path held by both stores was renamed in both.
C34_Witness ==
    /\ Returned("Rename") /\ ret.err = Nil /\ call.name # call.name2
    /\ Held(call.local, call.name) /\ Held(call.remote, call.name)
    /\ LocalSide.err = Nil /\ RemoteSide.err = Nil
    /\ NotFound(StatAfter(call.name).err) /\ StatAfter(call.name2).err = Nil

(***************************************************************************)
(* Stat and Readdir side by side (NestedSpec).                             *)
(***************************************************************************)
\* C35: every entry that Readdir of a directory other than the root
\* returns is one whose path Stat succeeds on, and the entry carries local
\* metadata exactly when that Stat returns local metadata.
C35_ReaddirAgreesWithStat ==
    Returned("Readdir") /\ call.name # Root /\ ret.err = Nil =>
        \A i \in 1..Len(ret.list) :
            LET st == StatAfter(call.name \o <<ret.list[i].name>>)
            IN  /\ st.err = Nil
                /\ (ret.list[i].src = "local") = (st.info.src = "local")

\* C35: a Readdir of FilePath returned a local entry and a remote one.
C35_Witness ==
    /\ Returned("Readdir") /\ call.name = FilePath /\ ret.err = Nil
    /\ Len(ret.list) = 2 /\ ret.list[1].src = "local" /\ ret.list[2].src = "remote"
    /\ StatAfter(call.name \o <<ret.list[2].name>>).info.src = "remote"

(***************************************************************************)
(* Two callers of one DirectoryFile (RaceSpec).                            *)
(***************************************************************************)
\* C36: with two callers in Readdir on the same DirectoryFile the lister is
\* called at most once, the cursor never exceeds the length of the
\* sequence, and no entry is returned to both callers.
C36_ConcurrentReaddir ==
    /\ hist.fetches <= 1
    /\ h.FileIndex <= Len(h.Files)
    /\ AllDone => NamesOf(thr[1].list) \cap NamesOf(thr[2].list) = {}

(***************************************************************************)
(* A caller that reads a handle to its end (LoopSpec).                     *)
(***************************************************************************)
Stopped == pc = "stopped"

\* C32: a caller that calls Read with a non-empty buffer on a remote file
\* handle of size N until it receives the end of the stream stops, and has
\* then received the bytes 0 .. N-1 in order.
C32_ReadLoop ==
    /\ [](FileLoop => <>Stopped)
    /\ [](FileLoop /\ Stopped => hist.got = [i \in 1..h.Size |-> i - 1])

\* the names of the entries of the directory of the handle
LoopEntries ==
    IF h.kind = "dir"
    THEN NamesOf(ProxyReaddir(local, remote, h.Name, FALSE, FALSE,
                              CHOOSE o \in Orders(remote, h.Name) : TRUE, {}).list)
    ELSE NamesOf(RemoteReadDir(remote, h.Name, FALSE,
                               CHOOSE o \in Orders(remote, h.Name) : TRUE).entries)
OnceEach == NoRepeatedName(hist.got) /\ NamesOf(hist.got) = LoopEntries

\* C38 as claimed: a caller that calls Readdir(count), count > 0, on a
\* directory handle of either kind until it receives the end of the stream
\* stops, and has then received each entry exactly once.
C38_ReaddirLoop ==
    /\ [](DirLoop => <>Stopped)
    /\ [](DirLoop /\ Stopped => OnceEach)

\* C38: on a DirectoryFile the caller stops, having received each entry
\* exactly once; Readdir on a remote file handle never returns io.EOF.
C38_AdapterLoop ==
    /\ [](h.kind = "dir" => <>Stopped)
    /\ [](h.kind = "dir" /\ Stopped => OnceEach)
    /\ [](Returned("FileReaddir") => ret.err # EOF)

C38_Witness ==
    /\ Stopped /\ h.kind = "dir"
    /\ Len(hist.got) = MaxEntries /\ Len(h.Files) = MaxEntries

====
